---- MODULE Spec2Model ----
(***************************************************************************)
(* Coin bookkeeping of the task marketplace: the users, tasks, task_works  *)
(* and transactions tables and the handlers that read and write them       *)
(* (handlers/tasks.ts, handlers/task_works.ts, handlers/transactions.ts).  *)
(* One action per handler call; a call that throws leaves the tables as    *)
(* the statements executed before the throw left them.                     *)
(* SpecRace runs createTask, processTopup and processWithdrawal one        *)
(* awaited statement at a time, with procs holding the calls in flight;    *)
(* SpecUsers runs the two routes of index.ts that reach updateUser.        *)
(*                                                                         *)
(* Timestamps written with `new Date()` are abstracted to the single       *)
(* non-null value STAMP; a nullable column holds NULL or a value.          *)
(* Columns no handler below reads back (platform, target_url, description, *)
(* payment_method, metadata, created_at, updated_at, ...) are left out.    *)
(* Transaction types other than topup and withdrawal are handled alike by  *)
(* every handler and are represented by "bonus".                           *)
(*                                                                         *)
(* last, prev, expected and faults are history variables: they record the  *)
(* last call, the tables before it, the ledger of the successful calls and *)
(* the number of rejected INSERTs; no handler reads them.                  *)
(***************************************************************************)
EXTENDS Integers, Sequences, FiniteSets

\* ------------------------------------------------------------------ bounds
NumUsers   == 2    \* rows of the users table: ids 1..NumUsers
MaxTasks   == 1    \* rows the tasks table may grow to
MaxWorks   == 2    \* rows the task_works table may grow to
MaxTxns    == 1    \* rows the transactions table may grow to
MaxTarget  == 2    \* target_interactions is drawn from 1..MaxTarget
MaxPrice   == 2    \* coins_per_interaction is drawn from 1..MaxPrice
MaxAmount  == 2    \* a transaction amount is drawn from -MaxDebit..MaxAmount
MaxDebit   == 1
StartCoins == 4    \* user 1 starts with StartCoins coins, the others with none
MaxBalance == 6    \* width of the integer column coin_balance, scaled down
NumProcs   == 2    \* handler calls that may be in flight at once
MaxPackages == 1   \* rows the coin_packages table may grow to
MaxCoinAmount == 2 \* coin_amount is drawn from 1..MaxCoinAmount
MaxBonus   == 1    \* bonus_coins is drawn from 0..MaxBonus, or absent
MaxPriceMilli == 80 \* a price is drawn from 0.001 .. MaxPriceMilli / 1000
MaxStatRows == 3   \* rows of the transactions table getTransactionStats is run on
CrowdUsers == 3    \* rows of the users table where one task meets several workers
TokenLife  == 1    \* ticks of the clock a token is valid for (7 days in the source)
MaxTime    == 2    \* the clock runs from 0 to MaxTime
MaxFaults  == 1    \* INSERTs into tasks the store may reject in one behaviour

\* ------------------------------------------------------------------ values
NULL  == "NULL"
STAMP == "ts"

UserIds   == 1..NumUsers
CallerIds == 1..(NumUsers + 1)          \* NumUsers + 1 is an id with no row
Targets   == 1..MaxTarget
Prices    == 1..MaxPrice
Amounts   == (0 - MaxDebit)..MaxAmount  \* z.number().int(): any sign

TransactionType   == {"topup", "withdrawal", "bonus"}
TransactionStatus == {"pending", "completed", "failed", "cancelled"}
Methods  == {"manual", "automatic"}
Notes    == {NULL, "", "checked"}
Reasons  == {"invalid proof"}
AutoNote == "Automatically verified via API"

\* Range of the integer column users.coin_balance: a write outside it is
\* refused by the store and the statement throws.
InRange(v) == v \in (0 - MaxBalance)..MaxBalance

\* `x || null` of JavaScript on a nullable string: the empty string is falsy.
OrNull(x) == IF x = NULL \/ x = "" THEN NULL ELSE x

VARIABLES
    users,         \* users table: id -> [coin_balance]
    tasks,         \* tasks table: sequence of rows, id = index
    task_works,    \* task_works table: sequence of rows, id = index
    transactions,  \* transactions table: sequence of rows, id = index
    last,          \* the last handler call: name, arguments, outcome
    expected,      \* per user: initial balance + credits - debits of the calls that succeeded
    faults,        \* number of INSERTs into tasks the store has rejected
    prev,          \* the tables as they were when the last call started
    procs,         \* per in-flight call: the statement it is at and its local values
    coin_packages, \* coin_packages table: sequence of rows, id = index
    system_settings, \* system_settings table: key -> the rows with that key (none or one), a row being its value
    reply,         \* what the last call of a reading handler returned
    moved,         \* ids of the transactions whose processing has written a balance
    caller,        \* the context of the last call that came through an administrator route
    tokens,        \* the tokens login has issued: [userId, exp]
    now            \* the clock, Date.now()

vars == <<users, tasks, task_works, transactions, last, expected, faults, prev, procs,
          coin_packages, system_settings, reply, moved, caller, tokens, now>>

Snapshot ==
    [users |-> users, tasks |-> tasks, task_works |-> task_works,
     transactions |-> transactions, coin_packages |-> coin_packages,
     system_settings |-> system_settings, moved |-> moved]

\* The record of a call. who: caller / user id, id: row id, x, y: numbers,
\* s, n: strings; ok: the call returned; err: the message it threw.
ProcIds == 1..NumProcs

\* keys of the settings the handlers read
SettingKeys ==
    {"commission_rate", "min_coins_per_interaction", "max_coins_per_interaction",
     "min_withdrawal_amount"}

\* No call has come through an administrator route yet.
NoCaller == [id |-> 0, role |-> "none"]

\* A call that is not running: no statement, no locals.
Idle == [pc |-> "idle", who |-> 0, id |-> 0, T |-> 0, P |-> 0, amount |-> 0, bal |-> 0,
         creator |-> 0, op |-> "", key |-> "", value |-> <<>>]

Call(op, who, id, x, y, s, n, ok, err) ==
    [op |-> op, who |-> who, id |-> id, x |-> x, y |-> y, s |-> s, n |-> n,
     ok |-> ok, err |-> err]

Init ==
    /\ users = [u \in UserIds |-> [coin_balance |-> IF u = 1 THEN StartCoins ELSE 0]]
    /\ tasks = <<>>
    /\ task_works = <<>>
    /\ transactions = <<>>
    /\ last = Call("none", 0, 0, 0, 0, "", "", TRUE, "")
    /\ expected = [u \in UserIds |-> users[u].coin_balance]
    /\ faults = 0
    /\ procs = [p \in ProcIds |-> Idle]
    /\ coin_packages = <<>>
    /\ system_settings = [k \in SettingKeys |-> <<>>]
    /\ reply = NULL
    /\ moved = {}
    /\ caller = NoCaller
    /\ tokens = {}
    /\ now = 0
    /\ prev = Snapshot

\* ------------------------------------------------------------------ tasks
\* createTask(input, creatorId). insertFails: the store rejects the INSERT
\* into tasks (the catch block rethrows); the UPDATE before it has run.
\* completed_interactions and status take the column defaults 0 and 'active'.
\* Mutant of TotalCost: the cost added up instead of multiplied.
TotalCost_Sum(T, P) == T + P

\* const totalCost = input.target_interactions * input.coins_per_interaction
TotalCost(T, P) == T * P

\* Mutant of Insufficient: the balance check left out.
Insufficient_Never(balance, totalCost) == FALSE

\* creator[0].coin_balance < totalCost
Insufficient(balance, totalCost) == balance < totalCost

createTask(creatorId, T, P, insertFails) ==
    LET totalCost == TotalCost(T, P)
        op(ok, err) == Call("createTask", creatorId, 0, T, P, "", "", ok, err)
    IN
    IF creatorId \notin DOMAIN users THEN
        /\ last' = op(FALSE, "Creator not found")
        /\ UNCHANGED <<users, tasks, task_works, transactions, expected, faults>>
    ELSE IF Insufficient(users[creatorId].coin_balance, totalCost) THEN
        /\ last' = op(FALSE, "Insufficient coin balance")
        /\ UNCHANGED <<users, tasks, task_works, transactions, expected, faults>>
    ELSE IF insertFails THEN
        /\ users' = [users EXCEPT ![creatorId].coin_balance = users[creatorId].coin_balance - totalCost]
        /\ faults < MaxFaults
        /\ faults' = faults + 1
        /\ last' = op(FALSE, "insert failed")
        /\ UNCHANGED <<tasks, task_works, transactions, expected>>
    ELSE
        /\ Len(tasks) < MaxTasks
        /\ users' = [users EXCEPT ![creatorId].coin_balance = users[creatorId].coin_balance - totalCost]
        /\ tasks' = Append(tasks,
              [creator_id |-> creatorId,
               target_interactions |-> T,
               completed_interactions |-> 0,
               coins_per_interaction |-> P,
               total_coins_allocated |-> totalCost,
               status |-> "active"])
        /\ expected' = [expected EXCEPT ![creatorId] = expected[creatorId] - totalCost]
        /\ last' = [op(TRUE, "") EXCEPT !.id = Len(tasks) + 1]
        /\ UNCHANGED <<task_works, transactions, faults>>

\* ------------------------------------------------------------------ task works
\* Mutant of HasWork: the handler's duplicate check left out.
HasWork_Never(taskId, workerId) == FALSE

\* existingWork.length > 0: the handler's own duplicate check
HasWork(taskId, workerId) ==
    \E w \in DOMAIN task_works :
        task_works[w].task_id = taskId /\ task_works[w].worker_id = workerId

\* Mutant of UniqueViolation: the table has no unique constraint.
UniqueViolation_Never(taskId, workerId) == FALSE

\* taskWorkerUnique: unique().on(task_id, worker_id), which the store checks
\* on INSERT
UniqueViolation(taskId, workerId) ==
    \E w \in DOMAIN task_works :
        task_works[w].task_id = taskId /\ task_works[w].worker_id = workerId

\* Mutant of CoinsEarned: a fixed reward instead of the task's price.
CoinsEarned_One(task) == 1

\* coins_earned: taskData.coins_per_interaction
CoinsEarned(task) == task.coins_per_interaction

\* Mutant of SelfWork: the creator check left out.
SelfWork_Never(task, workerId) == FALSE

\* taskData.creator_id === workerId
SelfWork(task, workerId) == task.creator_id = workerId

\* Mutant of AlreadyVerified: the verified_at test left out.
AlreadyVerified_Never(work) == FALSE

\* The test verifyTaskWork, rejectTaskWork and autoVerifyTaskWork make before
\* they write: existingWork[0].verified_at !== null
AlreadyVerified(work) == work.verified_at # NULL

\* createTaskWork(input, workerId)
createTaskWork(taskId, workerId) ==
    LET op(ok, err) == Call("createTaskWork", workerId, taskId, 0, 0, "", "", ok, err)
        fail(err) == /\ last' = op(FALSE, err)
                     /\ UNCHANGED <<users, tasks, task_works, transactions, expected, faults>>
    IN
    IF taskId \notin DOMAIN tasks THEN fail("Task not found")
    ELSE IF tasks[taskId].status # "active" THEN fail("Task is not active")
    ELSE IF tasks[taskId].completed_interactions >= tasks[taskId].target_interactions
        THEN fail("Task has already reached target interactions")
    ELSE IF workerId \notin DOMAIN users THEN fail("Worker not found")
    ELSE IF HasWork(taskId, workerId) THEN fail("Worker has already completed this task")
    ELSE IF SelfWork(tasks[taskId], workerId)
        THEN fail("Task creator cannot work on their own task")
    ELSE IF UniqueViolation(taskId, workerId)
        THEN fail("duplicate key value violates unique constraint")
    ELSE
        /\ Len(task_works) < MaxWorks
        /\ task_works' = Append(task_works,
              [task_id |-> taskId,
               worker_id |-> workerId,
               coins_earned |-> CoinsEarned(tasks[taskId]),
               verified_at |-> NULL,
               verification_method |-> NULL,
               admin_notes |-> NULL])
        /\ last' = [op(TRUE, "") EXCEPT !.x = Len(task_works) + 1]
        /\ UNCHANGED <<users, tasks, transactions, expected, faults>>

\* Mutant of verifyTaskWork: the method written is fixed, not the one given.
verifyTaskWork_FixedMethod(id, method, notes) ==
    LET op(ok, err) == Call("verifyTaskWork", 0, id, 0, 0, method, notes, ok, err)
        fail(err) == /\ last' = op(FALSE, err)
                     /\ UNCHANGED <<users, tasks, task_works, transactions, expected, faults>>
    IN
    IF id \notin DOMAIN task_works THEN fail("Task work not found")
    ELSE IF AlreadyVerified(task_works[id]) THEN fail("Task work has already been verified")
    ELSE
        /\ task_works' = [task_works EXCEPT ![id] =
              [@ EXCEPT !.verified_at = STAMP,
                        !.verification_method = "manual",
                        !.admin_notes = OrNull(notes)]]
        /\ last' = op(TRUE, "")
        /\ UNCHANGED <<users, tasks, transactions, expected, faults>>

\* verifyTaskWork(input)
verifyTaskWork(id, method, notes) ==
    LET op(ok, err) == Call("verifyTaskWork", 0, id, 0, 0, method, notes, ok, err)
        fail(err) == /\ last' = op(FALSE, err)
                     /\ UNCHANGED <<users, tasks, task_works, transactions, expected, faults>>
    IN
    IF id \notin DOMAIN task_works THEN fail("Task work not found")
    ELSE IF AlreadyVerified(task_works[id]) THEN fail("Task work has already been verified")
    ELSE
        /\ task_works' = [task_works EXCEPT ![id] =
              [@ EXCEPT !.verified_at = STAMP,
                        !.verification_method = method,
                        !.admin_notes = OrNull(notes)]]
        /\ last' = op(TRUE, "")
        /\ UNCHANGED <<users, tasks, transactions, expected, faults>>

\* Mutant of rejectTaskWork: coins_earned is not zeroed.
rejectTaskWork_KeepsCoins(id, reason) ==
    LET op(ok, err) == Call("rejectTaskWork", 0, id, 0, 0, "", reason, ok, err)
        fail(err) == /\ last' = op(FALSE, err)
                     /\ UNCHANGED <<users, tasks, task_works, transactions, expected, faults>>
    IN
    IF id \notin DOMAIN task_works THEN fail("Task work not found")
    ELSE IF AlreadyVerified(task_works[id]) THEN fail("Task work has already been processed")
    ELSE
        /\ task_works' = [task_works EXCEPT ![id] =
              [@ EXCEPT !.verification_method = "manual_rejection",
                        !.admin_notes = reason]]
        /\ last' = op(TRUE, "")
        /\ UNCHANGED <<users, tasks, transactions, expected, faults>>

\* rejectTaskWork(taskWorkId, reason)
rejectTaskWork(id, reason) ==
    LET op(ok, err) == Call("rejectTaskWork", 0, id, 0, 0, "", reason, ok, err)
        fail(err) == /\ last' = op(FALSE, err)
                     /\ UNCHANGED <<users, tasks, task_works, transactions, expected, faults>>
    IN
    IF id \notin DOMAIN task_works THEN fail("Task work not found")
    ELSE IF AlreadyVerified(task_works[id]) THEN fail("Task work has already been processed")
    ELSE
        /\ task_works' = [task_works EXCEPT ![id] =
              [@ EXCEPT !.verification_method = "manual_rejection",
                        !.admin_notes = reason,
                        !.coins_earned = 0]]
        /\ last' = op(TRUE, "")
        /\ UNCHANGED <<users, tasks, transactions, expected, faults>>

\* autoVerifyTaskWork(taskWorkId)
autoVerifyTaskWork(id) ==
    LET op(ok, err) == Call("autoVerifyTaskWork", 0, id, 0, 0, "", "", ok, err)
        fail(err) == /\ last' = op(FALSE, err)
                     /\ UNCHANGED <<users, tasks, task_works, transactions, expected, faults>>
    IN
    IF id \notin DOMAIN task_works THEN fail("Task work not found")
    ELSE IF AlreadyVerified(task_works[id]) THEN fail("Task work has already been verified")
    ELSE
        /\ task_works' = [task_works EXCEPT ![id] =
              [@ EXCEPT !.verified_at = STAMP,
                        !.verification_method = "api_automatic",
                        !.admin_notes = AutoNote]]
        /\ last' = op(TRUE, "")
        /\ UNCHANGED <<users, tasks, transactions, expected, faults>>

\* ------------------------------------------------------------------ transactions
\* createTransaction(input, userId)
\* Mutant of WithdrawalRefused: the creation-time balance check left out.
WithdrawalRefused_Never(type, balance, amount) == FALSE

\* input.type === 'withdrawal' && user[0].coin_balance < input.amount
WithdrawalRefused(type, balance, amount) == type = "withdrawal" /\ balance < amount

\* Mutant of WrongType: the type of the transaction is not looked at.
WrongType_Never(txn, type) == FALSE

\* transaction[0].type !== 'topup', transaction[0].type !== 'withdrawal'
WrongType(txn, type) == txn.type # type

\* Mutant of NotPending: a processed transaction may be processed again.
NotPending_Never(txn) == FALSE

\* txn.status !== 'pending'
NotPending(txn) == txn.status # "pending"

\* Mutant of MarkFailed: the refused withdrawal is left as it was.
MarkFailed_Skip(txn) == txn

\* set({ status: 'failed', processed_at: new Date() })
MarkFailed(txn) == [txn EXCEPT !.status = "failed", !.processed_at = STAMP]

createTransaction(userId, type, amount) ==
    LET op(ok, err) == Call("createTransaction", userId, 0, amount, 0, type, "", ok, err)
        fail(err) == /\ last' = op(FALSE, err)
                     /\ UNCHANGED <<users, tasks, task_works, transactions, expected, faults>>
    IN
    IF userId \notin UserIds THEN fail("User not found")
    ELSE IF WithdrawalRefused(type, users[userId].coin_balance, amount)
        THEN fail("Insufficient coin balance")
    ELSE
        /\ Len(transactions) < MaxTxns
        /\ transactions' = Append(transactions,
              [user_id |-> userId,
               type |-> type,
               amount |-> amount,
               status |-> "pending",
               processed_at |-> NULL])
        /\ last' = [op(TRUE, "") EXCEPT !.id = Len(transactions) + 1]
        /\ UNCHANGED <<users, tasks, task_works, expected, faults>>

\* Mutant of updateTransaction: setting a top-up to completed also credits it.
updateTransaction_Credits(id, status) ==
    LET op(ok, err) == Call("updateTransaction", 0, id, 0, 0, status, "", ok, err)
    IN
    IF id \notin DOMAIN transactions THEN
        /\ last' = op(FALSE, "Transaction not found")
        /\ UNCHANGED <<users, tasks, task_works, transactions, expected, faults>>
    ELSE
        /\ transactions' = [transactions EXCEPT ![id] =
              [@ EXCEPT !.status = status,
                        !.processed_at =
                            IF status = "completed" \/ status = "failed"
                            THEN STAMP ELSE @]]
        /\ users' = IF /\ status = "completed"
                       /\ transactions[id].type = "topup"
                       /\ InRange(users[transactions[id].user_id].coin_balance
                                      + transactions[id].amount)
                    THEN [users EXCEPT ![transactions[id].user_id].coin_balance =
                              @ + transactions[id].amount]
                    ELSE users
        /\ last' = op(TRUE, "")
        /\ UNCHANGED <<tasks, task_works, expected, faults>>

\* updateTransaction(input)
updateTransaction(id, status) ==
    LET op(ok, err) == Call("updateTransaction", 0, id, 0, 0, status, "", ok, err)
    IN
    IF id \notin DOMAIN transactions THEN
        /\ last' = op(FALSE, "Transaction not found")
        /\ UNCHANGED <<users, tasks, task_works, transactions, expected, faults>>
    ELSE
        /\ transactions' = [transactions EXCEPT ![id] =
              [@ EXCEPT !.status = status,
                        !.processed_at =
                            IF status = "completed" \/ status = "failed"
                            THEN STAMP ELSE @]]
        /\ last' = op(TRUE, "")
        /\ UNCHANGED <<users, tasks, task_works, expected, faults>>

\* processTopup(transactionId)
processTopup(id) ==
    LET op(ok, err) == Call("processTopup", 0, id, 0, 0, "", "", ok, err)
        fail(err) == /\ last' = op(FALSE, err)
                     /\ UNCHANGED <<users, tasks, task_works, transactions, expected, faults, moved>>
    IN
    IF id \notin DOMAIN transactions THEN fail("Transaction not found")
    ELSE LET txn == transactions[id]
             balance == users[txn.user_id].coin_balance + txn.amount
         IN
         IF WrongType(txn, "topup") THEN fail("Transaction is not a topup")
         ELSE IF NotPending(txn) THEN fail("Transaction is not pending")
         ELSE IF ~InRange(balance) THEN fail("integer out of range")
         ELSE
            /\ users' = [users EXCEPT ![txn.user_id].coin_balance = balance]
            /\ transactions' = [transactions EXCEPT ![id] =
                  [@ EXCEPT !.status = "completed", !.processed_at = STAMP]]
            /\ expected' = [expected EXCEPT ![txn.user_id] = @ + txn.amount]
            /\ last' = op(TRUE, "")
            /\ moved' = moved \cup {id}
            /\ UNCHANGED <<tasks, task_works, faults>>

\* processWithdrawal(transactionId)
processWithdrawal(id) ==
    LET op(ok, err) == Call("processWithdrawal", 0, id, 0, 0, "", "", ok, err)
        fail(err) == /\ last' = op(FALSE, err)
                     /\ UNCHANGED <<users, tasks, task_works, transactions, expected, faults, moved>>
    IN
    IF id \notin DOMAIN transactions THEN fail("Transaction not found")
    ELSE LET txn == transactions[id]
             balance == users[txn.user_id].coin_balance - txn.amount
         IN
         IF WrongType(txn, "withdrawal") THEN fail("Transaction is not a withdrawal")
         ELSE IF NotPending(txn) THEN fail("Transaction is not pending")
         ELSE IF users[txn.user_id].coin_balance < txn.amount THEN
            /\ transactions' = [transactions EXCEPT ![id] = MarkFailed(@)]
            /\ last' = op(FALSE, "Insufficient coin balance")
            /\ UNCHANGED <<users, tasks, task_works, expected, faults, moved>>
         ELSE IF ~InRange(balance) THEN fail("integer out of range")
         ELSE
            /\ users' = [users EXCEPT ![txn.user_id].coin_balance = balance]
            /\ transactions' = [transactions EXCEPT ![id] =
                  [@ EXCEPT !.status = "completed", !.processed_at = STAMP]]
            /\ expected' = [expected EXCEPT ![txn.user_id] = @ - txn.amount]
            /\ last' = op(TRUE, "")
            /\ moved' = moved \cup {id}
            /\ UNCHANGED <<tasks, task_works, faults>>

\* ------------------------------------------------------------------ calls
TaskIds == 1..(Len(tasks) + 1)              \* Len + 1 is an id with no row
WorkIds == 1..(Len(task_works) + 1)
TxnIds  == 1..(Len(transactions) + 1)

CreateTask ==
    \E c \in CallerIds, T \in Targets, P \in Prices, f \in BOOLEAN :
        /\ createTask(c, T, P, f)
        /\ prev' = Snapshot
        /\ UNCHANGED <<caller, tokens, now>>
        /\ UNCHANGED <<procs, coin_packages, system_settings, reply, moved>>

CreateTaskWork ==
    \E t \in TaskIds, w \in CallerIds :
        /\ createTaskWork(t, w)
        /\ prev' = Snapshot
        /\ UNCHANGED <<caller, tokens, now>>
        /\ UNCHANGED <<procs, coin_packages, system_settings, reply, moved>>

VerifyTaskWork ==
    \E id \in WorkIds, m \in Methods, n \in Notes :
        /\ verifyTaskWork(id, m, n)
        /\ prev' = Snapshot
        /\ UNCHANGED <<caller, tokens, now>>
        /\ UNCHANGED <<procs, coin_packages, system_settings, reply, moved>>

RejectTaskWork ==
    \E id \in WorkIds, r \in Reasons :
        /\ rejectTaskWork(id, r)
        /\ prev' = Snapshot
        /\ UNCHANGED <<caller, tokens, now>>
        /\ UNCHANGED <<procs, coin_packages, system_settings, reply, moved>>

AutoVerifyTaskWork ==
    \E id \in WorkIds :
        /\ autoVerifyTaskWork(id)
        /\ prev' = Snapshot
        /\ UNCHANGED <<caller, tokens, now>>
        /\ UNCHANGED <<procs, coin_packages, system_settings, reply, moved>>

CreateTransaction ==
    \E u \in CallerIds, ty \in TransactionType, a \in Amounts :
        /\ createTransaction(u, ty, a)
        /\ prev' = Snapshot
        /\ UNCHANGED <<caller, tokens, now>>
        /\ UNCHANGED <<procs, coin_packages, system_settings, reply, moved>>

UpdateTransaction ==
    \E id \in TxnIds, st \in TransactionStatus :
        /\ updateTransaction(id, st)
        /\ prev' = Snapshot
        /\ UNCHANGED <<caller, tokens, now>>
        /\ UNCHANGED <<procs, coin_packages, system_settings, reply, moved>>

ProcessTopup ==
    \E id \in TxnIds :
        /\ processTopup(id)
        /\ prev' = Snapshot
        /\ UNCHANGED <<caller, tokens, now>>
        /\ UNCHANGED <<procs, coin_packages, system_settings, reply>>

ProcessWithdrawal ==
    \E id \in TxnIds :
        /\ processWithdrawal(id)
        /\ prev' = Snapshot
        /\ UNCHANGED <<caller, tokens, now>>
        /\ UNCHANGED <<procs, coin_packages, system_settings, reply>>

Next ==
    \/ CreateTask
    \/ CreateTaskWork
    \/ VerifyTaskWork
    \/ RejectTaskWork
    \/ AutoVerifyTaskWork
    \/ CreateTransaction
    \/ UpdateTransaction
    \/ ProcessTopup
    \/ ProcessWithdrawal

Spec == Init /\ [][Next]_vars

\* The ledger: the handlers that read or write coin_balance or transactions.
\* None of them reads task_works, and no task_works handler writes users,
\* tasks or transactions.
NextLedger ==
    \/ CreateTask
    \/ CreateTransaction
    \/ UpdateTransaction
    \/ ProcessTopup
    \/ ProcessWithdrawal

SpecLedger == Init /\ [][NextLedger]_vars

\* The work verifier: task creation and the task_works handlers. None of
\* them reads or writes transactions.
NextWorks ==
    \/ CreateTask
    \/ CreateTaskWork
    \/ VerifyTaskWork
    \/ RejectTaskWork
    \/ AutoVerifyTaskWork

SpecWorks == Init /\ [][NextWorks]_vars

\* The same handlers on a users table of CrowdUsers rows, so that a task of
\* user 1 has more than one possible worker.
InitCrowd ==
    /\ users = [u \in 1..CrowdUsers |-> [coin_balance |-> IF u = 1 THEN StartCoins ELSE 0]]
    /\ tasks = <<>>
    /\ task_works = <<>>
    /\ transactions = <<>>
    /\ last = Call("none", 0, 0, 0, 0, "", "", TRUE, "")
    /\ expected = [u \in 1..CrowdUsers |-> users[u].coin_balance]
    /\ faults = 0
    /\ procs = [p \in ProcIds |-> Idle]
    /\ coin_packages = <<>>
    /\ system_settings = [k \in SettingKeys |-> <<>>]
    /\ reply = NULL
    /\ moved = {}
    /\ caller = NoCaller
    /\ tokens = {}
    /\ now = 0
    /\ prev = Snapshot

SpecCrowd == InitCrowd /\ [][NextWorks]_vars

\* getPendingTaskWorks(): select().from(taskWorksTable)
\*                          .where(isNull(taskWorksTable.verified_at))
getPendingTaskWorks ==
    /\ last' = Call("getPendingTaskWorks", 0, 0, 0, 0, "", "", TRUE, "")
    /\ reply' = [id \in {i \in DOMAIN task_works : task_works[i].verified_at = NULL}
                    |-> task_works[id]]
    /\ UNCHANGED <<users, tasks, task_works, transactions, expected, faults,
                   coin_packages, system_settings>>

GetPendingTaskWorks ==
    /\ getPendingTaskWorks
    /\ prev' = Snapshot
    /\ UNCHANGED <<caller, tokens, now>>
    /\ UNCHANGED <<procs, moved>>

\* The admin panel: the task_works handlers and the list of works that wait
\* for a decision.
NextPending ==
    \/ CreateTask
    \/ CreateTaskWork
    \/ VerifyTaskWork
    \/ RejectTaskWork
    \/ AutoVerifyTaskWork
    \/ GetPendingTaskWorks

SpecPending == Init /\ [][NextPending]_vars

\* ------------------------------------------------- statement by statement
\* createTask, processTopup and processWithdrawal as the sequences of awaited
\* statements they are: each SELECT, UPDATE and INSERT is one step, and the
\* steps of the calls in flight interleave. No handler opens a database
\* transaction or locks a row, so what a call has read stays in its locals
\* (procs[p].bal) while other calls write. The store rejects no INSERT here.

Finish(p) == procs' = [procs EXCEPT ![p] = Idle]

Goto(p, pc) == procs' = [procs EXCEPT ![p].pc = pc]

\* tasks rows in flight: selected, not yet inserted
TasksInFlight ==
    Cardinality({p \in ProcIds : procs[p].pc \in {"createTask_updateUser", "createTask_insertTask"}})

\* createTask: select the creator, check existence and balance
createTask_selectUser(p) ==
    \E creatorId \in CallerIds, T \in Targets, P \in Prices :
        LET op(ok, err) == Call("createTask", creatorId, 0, T, P, "", "", ok, err)
        IN
        /\ procs[p].pc = "idle"
        /\ IF creatorId \notin UserIds THEN
               /\ last' = op(FALSE, "Creator not found")
               /\ UNCHANGED procs
           ELSE IF Insufficient(users[creatorId].coin_balance, TotalCost(T, P)) THEN
               /\ last' = op(FALSE, "Insufficient coin balance")
               /\ UNCHANGED procs
           ELSE
               /\ Len(tasks) + TasksInFlight < MaxTasks
               /\ procs' = [procs EXCEPT ![p] =
                      [Idle EXCEPT !.pc = "createTask_updateUser", !.who = creatorId,
                                   !.T = T, !.P = P,
                                   !.bal = users[creatorId].coin_balance]]
               /\ UNCHANGED last
        /\ prev' = Snapshot
        /\ UNCHANGED <<caller, tokens, now>>
        /\ UNCHANGED <<coin_packages, system_settings, reply, moved>>
        /\ UNCHANGED <<users, tasks, task_works, transactions, expected, faults>>

\* createTask: UPDATE users SET coin_balance = creator[0].coin_balance - totalCost
createTask_updateUser(p) ==
    /\ procs[p].pc = "createTask_updateUser"
    /\ users' = [users EXCEPT ![procs[p].who].coin_balance =
                     procs[p].bal - TotalCost(procs[p].T, procs[p].P)]
    /\ Goto(p, "createTask_insertTask")
    /\ prev' = Snapshot
    /\ UNCHANGED <<caller, tokens, now>>
    /\ UNCHANGED <<coin_packages, system_settings, reply, moved>>
    /\ UNCHANGED <<tasks, task_works, transactions, last, expected, faults>>

\* createTask: INSERT INTO tasks, and the call returns
createTask_insertTask(p) ==
    /\ procs[p].pc = "createTask_insertTask"
    /\ tasks' = Append(tasks,
          [creator_id |-> procs[p].who,
           target_interactions |-> procs[p].T,
           coins_per_interaction |-> procs[p].P,
           total_coins_allocated |-> TotalCost(procs[p].T, procs[p].P),
           completed_interactions |-> 0,
           status |-> "active"])
    /\ expected' = [expected EXCEPT ![procs[p].who] = @ - TotalCost(procs[p].T, procs[p].P)]
    /\ last' = [Call("createTask", procs[p].who, 0, procs[p].T, procs[p].P, "", "", TRUE, "")
                    EXCEPT !.id = Len(tasks) + 1]
    /\ Finish(p)
    /\ prev' = Snapshot
    /\ UNCHANGED <<caller, tokens, now>>
    /\ UNCHANGED <<coin_packages, system_settings, reply, moved>>
    /\ UNCHANGED <<users, task_works, transactions, faults>>

\* processTopup: select the transaction, check type and status
processTopup_selectTxn(p) ==
    \E id \in TxnIds :
        LET fail(err) == /\ last' = Call("processTopup", 0, id, 0, 0, "", "", FALSE, err)
                         /\ UNCHANGED procs
        IN
        /\ procs[p].pc = "idle"
        /\ IF id \notin DOMAIN transactions THEN fail("Transaction not found")
           ELSE IF WrongType(transactions[id], "topup") THEN fail("Transaction is not a topup")
           ELSE IF NotPending(transactions[id]) THEN fail("Transaction is not pending")
           ELSE
               /\ procs' = [procs EXCEPT ![p] =
                      [Idle EXCEPT !.pc = "processTopup_selectUser", !.id = id,
                                   !.who = transactions[id].user_id,
                                   !.amount = transactions[id].amount]]
               /\ UNCHANGED last
        /\ prev' = Snapshot
        /\ UNCHANGED <<caller, tokens, now>>
        /\ UNCHANGED <<coin_packages, system_settings, reply, moved>>
        /\ UNCHANGED <<users, tasks, task_works, transactions, expected, faults>>

\* processTopup: select the user
processTopup_selectUser(p) ==
    /\ procs[p].pc = "processTopup_selectUser"
    /\ procs' = [procs EXCEPT ![p].pc = "processTopup_updateUser",
                              ![p].bal = users[procs[p].who].coin_balance]
    /\ prev' = Snapshot
    /\ UNCHANGED <<caller, tokens, now>>
    /\ UNCHANGED <<coin_packages, system_settings, reply, moved>>
    /\ UNCHANGED <<users, tasks, task_works, transactions, last, expected, faults>>

\* processTopup: UPDATE users SET coin_balance = user[0].coin_balance + txn.amount
processTopup_updateUser(p) ==
    /\ procs[p].pc = "processTopup_updateUser"
    /\ IF ~InRange(procs[p].bal + procs[p].amount) THEN
           /\ last' = Call("processTopup", 0, procs[p].id, 0, 0, "", "", FALSE,
                           "integer out of range")
           /\ Finish(p)
           /\ UNCHANGED <<users, moved>>
       ELSE
           /\ users' = [users EXCEPT ![procs[p].who].coin_balance =
                            procs[p].bal + procs[p].amount]
           /\ moved' = moved \cup {procs[p].id}
           /\ Goto(p, "processTopup_updateTxn")
           /\ UNCHANGED last
    /\ prev' = Snapshot
    /\ UNCHANGED <<caller, tokens, now>>
    /\ UNCHANGED <<coin_packages, system_settings, reply>>
    /\ UNCHANGED <<tasks, task_works, transactions, expected, faults>>

\* processTopup: UPDATE transactions SET status = 'completed', and the call
\* returns
processTopup_updateTxn(p) ==
    /\ procs[p].pc = "processTopup_updateTxn"
    /\ transactions' = [transactions EXCEPT ![procs[p].id] =
          [@ EXCEPT !.status = "completed", !.processed_at = STAMP]]
    /\ expected' = [expected EXCEPT ![procs[p].who] = @ + procs[p].amount]
    /\ last' = Call("processTopup", 0, procs[p].id, 0, 0, "", "", TRUE, "")
    /\ Finish(p)
    /\ prev' = Snapshot
    /\ UNCHANGED <<caller, tokens, now>>
    /\ UNCHANGED <<coin_packages, system_settings, reply, moved>>
    /\ UNCHANGED <<users, tasks, task_works, faults>>

\* processWithdrawal: select the transaction, check type and status
processWithdrawal_selectTxn(p) ==
    \E id \in TxnIds :
        LET fail(err) == /\ last' = Call("processWithdrawal", 0, id, 0, 0, "", "", FALSE, err)
                         /\ UNCHANGED procs
        IN
        /\ procs[p].pc = "idle"
        /\ IF id \notin DOMAIN transactions THEN fail("Transaction not found")
           ELSE IF WrongType(transactions[id], "withdrawal") THEN fail("Transaction is not a withdrawal")
           ELSE IF NotPending(transactions[id]) THEN fail("Transaction is not pending")
           ELSE
               /\ procs' = [procs EXCEPT ![p] =
                      [Idle EXCEPT !.pc = "processWithdrawal_selectUser", !.id = id,
                                   !.who = transactions[id].user_id,
                                   !.amount = transactions[id].amount]]
               /\ UNCHANGED last
        /\ prev' = Snapshot
        /\ UNCHANGED <<caller, tokens, now>>
        /\ UNCHANGED <<coin_packages, system_settings, reply, moved>>
        /\ UNCHANGED <<users, tasks, task_works, transactions, expected, faults>>

\* processWithdrawal: select the user, compare the balance with the amount
processWithdrawal_selectUser(p) ==
    /\ procs[p].pc = "processWithdrawal_selectUser"
    /\ procs' = [procs EXCEPT
          ![p].pc = IF users[procs[p].who].coin_balance < procs[p].amount
                    THEN "processWithdrawal_markFailed"
                    ELSE "processWithdrawal_updateUser",
          ![p].bal = users[procs[p].who].coin_balance]
    /\ prev' = Snapshot
    /\ UNCHANGED <<caller, tokens, now>>
    /\ UNCHANGED <<coin_packages, system_settings, reply, moved>>
    /\ UNCHANGED <<users, tasks, task_works, transactions, last, expected, faults>>

\* processWithdrawal: UPDATE transactions SET status = 'failed', and the call
\* throws
processWithdrawal_markFailed(p) ==
    /\ procs[p].pc = "processWithdrawal_markFailed"
    /\ transactions' = [transactions EXCEPT ![procs[p].id] = MarkFailed(@)]
    /\ last' = Call("processWithdrawal", 0, procs[p].id, 0, 0, "", "", FALSE,
                    "Insufficient coin balance")
    /\ Finish(p)
    /\ prev' = Snapshot
    /\ UNCHANGED <<caller, tokens, now>>
    /\ UNCHANGED <<coin_packages, system_settings, reply, moved>>
    /\ UNCHANGED <<users, tasks, task_works, expected, faults>>

\* processWithdrawal: UPDATE users SET coin_balance = user[0].coin_balance - txn.amount
processWithdrawal_updateUser(p) ==
    /\ procs[p].pc = "processWithdrawal_updateUser"
    /\ IF ~InRange(procs[p].bal - procs[p].amount) THEN
           /\ last' = Call("processWithdrawal", 0, procs[p].id, 0, 0, "", "", FALSE,
                           "integer out of range")
           /\ Finish(p)
           /\ UNCHANGED <<users, moved>>
       ELSE
           /\ users' = [users EXCEPT ![procs[p].who].coin_balance =
                            procs[p].bal - procs[p].amount]
           /\ moved' = moved \cup {procs[p].id}
           /\ Goto(p, "processWithdrawal_updateTxn")
           /\ UNCHANGED last
    /\ prev' = Snapshot
    /\ UNCHANGED <<caller, tokens, now>>
    /\ UNCHANGED <<coin_packages, system_settings, reply>>
    /\ UNCHANGED <<tasks, task_works, transactions, expected, faults>>

\* processWithdrawal: UPDATE transactions SET status = 'completed', and the
\* call returns
processWithdrawal_updateTxn(p) ==
    /\ procs[p].pc = "processWithdrawal_updateTxn"
    /\ transactions' = [transactions EXCEPT ![procs[p].id] =
          [@ EXCEPT !.status = "completed", !.processed_at = STAMP]]
    /\ expected' = [expected EXCEPT ![procs[p].who] = @ - procs[p].amount]
    /\ last' = Call("processWithdrawal", 0, procs[p].id, 0, 0, "", "", TRUE, "")
    /\ Finish(p)
    /\ prev' = Snapshot
    /\ UNCHANGED <<caller, tokens, now>>
    /\ UNCHANGED <<coin_packages, system_settings, reply, moved>>
    /\ UNCHANGED <<users, tasks, task_works, faults>>

CreateTaskSelectUser == \E p \in ProcIds : createTask_selectUser(p)
CreateTaskUpdateUser == \E p \in ProcIds : createTask_updateUser(p)
CreateTaskInsertTask == \E p \in ProcIds : createTask_insertTask(p)
ProcessTopupSelectTxn == \E p \in ProcIds : processTopup_selectTxn(p)
ProcessTopupSelectUser == \E p \in ProcIds : processTopup_selectUser(p)
ProcessTopupUpdateUser == \E p \in ProcIds : processTopup_updateUser(p)
ProcessTopupUpdateTxn == \E p \in ProcIds : processTopup_updateTxn(p)
ProcessWithdrawalSelectTxn == \E p \in ProcIds : processWithdrawal_selectTxn(p)
ProcessWithdrawalSelectUser == \E p \in ProcIds : processWithdrawal_selectUser(p)
ProcessWithdrawalMarkFailed == \E p \in ProcIds : processWithdrawal_markFailed(p)
ProcessWithdrawalUpdateUser == \E p \in ProcIds : processWithdrawal_updateUser(p)
ProcessWithdrawalUpdateTxn == \E p \in ProcIds : processWithdrawal_updateTxn(p)

\* Transactions are created while no call is in flight; the calls that then
\* run concurrently are createTask, processTopup and processWithdrawal.
CreateTransactionAlone ==
    /\ \A p \in ProcIds : procs[p].pc = "idle"
    /\ CreateTransaction

NextRace ==
    \/ CreateTransactionAlone
    \/ CreateTaskSelectUser
    \/ CreateTaskUpdateUser
    \/ CreateTaskInsertTask
    \/ ProcessTopupSelectTxn
    \/ ProcessTopupSelectUser
    \/ ProcessTopupUpdateUser
    \/ ProcessTopupUpdateTxn
    \/ ProcessWithdrawalSelectTxn
    \/ ProcessWithdrawalSelectUser
    \/ ProcessWithdrawalMarkFailed
    \/ ProcessWithdrawalUpdateUser
    \/ ProcessWithdrawalUpdateTxn

SpecRace == Init /\ [][NextRace]_vars

\* createTaskWork as the sequence of its awaited statements: three SELECTs,
\* each followed by the checks made on its result, then the INSERT.
\* task_works rows in flight: past the checks, not yet inserted
WorksInFlight ==
    Cardinality({p \in ProcIds : procs[p].pc \in
        {"createTaskWork_selectWorker", "createTaskWork_selectWork",
         "createTaskWork_insert"}})

\* createTaskWork: select the task, check existence, status and target
createTaskWork_selectTask(p) ==
    \E taskId \in TaskIds, workerId \in CallerIds :
        LET fail(err) ==
                /\ last' = Call("createTaskWork", workerId, taskId, 0, 0, "", "", FALSE, err)
                /\ UNCHANGED procs
        IN
        /\ procs[p].pc = "idle"
        /\ IF taskId \notin DOMAIN tasks THEN fail("Task not found")
           ELSE IF tasks[taskId].status # "active" THEN fail("Task is not active")
           ELSE IF tasks[taskId].completed_interactions >= tasks[taskId].target_interactions
               THEN fail("Task has already reached target interactions")
           ELSE
               /\ Len(task_works) + WorksInFlight < MaxWorks
               /\ procs' = [procs EXCEPT ![p] =
                      [Idle EXCEPT !.pc = "createTaskWork_selectWorker",
                                   !.id = taskId, !.who = workerId,
                                   !.creator = tasks[taskId].creator_id,
                                   !.P = CoinsEarned(tasks[taskId])]]
               /\ UNCHANGED last
        /\ prev' = Snapshot
        /\ UNCHANGED <<caller, tokens, now>>
        /\ UNCHANGED <<coin_packages, system_settings, reply, moved>>
        /\ UNCHANGED <<users, tasks, task_works, transactions, expected, faults>>

\* createTaskWork: select the worker, check existence
createTaskWork_selectWorker(p) ==
    /\ procs[p].pc = "createTaskWork_selectWorker"
    /\ IF procs[p].who \notin DOMAIN users THEN
           /\ last' = Call("createTaskWork", procs[p].who, procs[p].id, 0, 0, "", "",
                           FALSE, "Worker not found")
           /\ Finish(p)
       ELSE
           /\ Goto(p, "createTaskWork_selectWork")
           /\ UNCHANGED last
    /\ prev' = Snapshot
    /\ UNCHANGED <<caller, tokens, now>>
    /\ UNCHANGED <<coin_packages, system_settings, reply, moved>>
    /\ UNCHANGED <<users, tasks, task_works, transactions, expected, faults>>

\* createTaskWork: select the worker's works on the task, then the duplicate
\* check and the creator check
createTaskWork_selectWork(p) ==
    LET fail(err) ==
            /\ last' = Call("createTaskWork", procs[p].who, procs[p].id, 0, 0, "", "",
                            FALSE, err)
            /\ Finish(p)
    IN
    /\ procs[p].pc = "createTaskWork_selectWork"
    /\ IF HasWork(procs[p].id, procs[p].who)
           THEN fail("Worker has already completed this task")
       ELSE IF procs[p].creator = procs[p].who
           THEN fail("Task creator cannot work on their own task")
       ELSE
           /\ Goto(p, "createTaskWork_insert")
           /\ UNCHANGED last
    /\ prev' = Snapshot
    /\ UNCHANGED <<caller, tokens, now>>
    /\ UNCHANGED <<coin_packages, system_settings, reply, moved>>
    /\ UNCHANGED <<users, tasks, task_works, transactions, expected, faults>>

\* createTaskWork: INSERT INTO task_works, and the call returns; the store
\* refuses a second row for the pair
createTaskWork_insert(p) ==
    /\ procs[p].pc = "createTaskWork_insert"
    /\ IF UniqueViolation(procs[p].id, procs[p].who) THEN
           /\ last' = Call("createTaskWork", procs[p].who, procs[p].id, 0, 0, "", "",
                           FALSE, "duplicate key value violates unique constraint")
           /\ UNCHANGED task_works
       ELSE
           /\ task_works' = Append(task_works,
                 [task_id |-> procs[p].id,
                  worker_id |-> procs[p].who,
                  coins_earned |-> procs[p].P,
                  verified_at |-> NULL,
                  verification_method |-> NULL,
                  admin_notes |-> NULL])
           /\ last' = [Call("createTaskWork", procs[p].who, procs[p].id, 0, 0, "", "",
                            TRUE, "")
                           EXCEPT !.x = Len(task_works) + 1]
    /\ Finish(p)
    /\ prev' = Snapshot
    /\ UNCHANGED <<caller, tokens, now>>
    /\ UNCHANGED <<coin_packages, system_settings, reply, moved>>
    /\ UNCHANGED <<users, tasks, transactions, expected, faults>>

CreateTaskWorkSelectTask == \E p \in ProcIds : createTaskWork_selectTask(p)
CreateTaskWorkSelectWorker == \E p \in ProcIds : createTaskWork_selectWorker(p)
CreateTaskWorkSelectWork == \E p \in ProcIds : createTaskWork_selectWork(p)
CreateTaskWorkInsert == \E p \in ProcIds : createTaskWork_insert(p)

\* A task is created while no createTaskWork call is in flight.
CreateTaskAlone ==
    /\ \A p \in ProcIds : procs[p].pc = "idle"
    /\ CreateTask

NextWorkRace ==
    \/ CreateTaskAlone
    \/ CreateTaskWorkSelectTask
    \/ CreateTaskWorkSelectWorker
    \/ CreateTaskWorkSelectWork
    \/ CreateTaskWorkInsert

SpecWorkRace == Init /\ [][NextWorkRace]_vars

\* ------------------------------------------------------------ user routes
\* The caller a procedure runs for: Context.user, absent for an anonymous
\* caller. How the context is filled (token check) is outside the model;
\* the procedures are translated for every context the type admits.
Roles == {"user", "admin"}
Anonymous == [id |-> 0, role |-> "anonymous"]
Contexts == {Anonymous} \cup [id : UserIds, role : Roles]

\* coin_balance of updateUserInputSchema: absent (Undefined, which no
\* validated input equals), or a non-negative integer
Undefined == 0 - 1
BalanceInputs == {Undefined} \cup 0..MaxBalance

\* protectedProcedure: !ctx.user
Unauthorized(ctx) == ctx = Anonymous

\* Mutant of NotAdmin: the role of the caller is not looked at.
NotAdmin_Never(ctx) == FALSE

\* adminProcedure: ctx.user.role !== 'admin'
NotAdmin(ctx) == ctx.role # "admin"

\* updateUser(input), called by the route op for the caller ctx
updateUser(op, ctx, id, coin_balance) ==
    LET call(ok, err) ==
            Call(op, ctx.id, id, IF coin_balance = Undefined THEN 0 ELSE coin_balance, 0,
                 ctx.role, IF coin_balance = Undefined THEN "" ELSE "coin_balance", ok, err)
    IN
    IF id \notin UserIds THEN
        /\ last' = call(FALSE, "User not found")
        /\ UNCHANGED <<users, tasks, task_works, transactions, expected, faults>>
    ELSE
        /\ users' = IF coin_balance = Undefined THEN users
                    ELSE [users EXCEPT ![id].coin_balance = coin_balance]
        /\ last' = call(TRUE, "")
        /\ UNCHANGED <<tasks, task_works, transactions, expected, faults>>

\* A route refusing the caller before any handler runs
Refuse(op, ctx, id, code) ==
    /\ last' = Call(op, ctx.id, id, 0, 0, ctx.role, "", FALSE, code)
    /\ UNCHANGED <<users, tasks, task_works, transactions, expected, faults>>

\* users.updateProfile
users_updateProfile(ctx, id, coin_balance) ==
    IF Unauthorized(ctx) THEN Refuse("users.updateProfile", ctx, id, "UNAUTHORIZED")
    ELSE IF id # ctx.id /\ ctx.role # "admin"
        THEN Refuse("users.updateProfile", ctx, id, "FORBIDDEN")
    ELSE updateUser("users.updateProfile", ctx, id, coin_balance)

\* users.update
users_update(ctx, id, coin_balance) ==
    IF Unauthorized(ctx) THEN Refuse("users.update", ctx, id, "UNAUTHORIZED")
    ELSE IF NotAdmin(ctx) THEN Refuse("users.update", ctx, id, "FORBIDDEN")
    ELSE updateUser("users.update", ctx, id, coin_balance)

UsersUpdateProfile ==
    \E ctx \in Contexts, id \in CallerIds, b \in BalanceInputs :
        /\ users_updateProfile(ctx, id, b)
        /\ prev' = Snapshot
        /\ UNCHANGED <<caller, tokens, now>>
        /\ UNCHANGED <<procs, coin_packages, system_settings, reply, moved>>

UsersUpdate ==
    \E ctx \in Contexts, id \in CallerIds, b \in BalanceInputs :
        /\ users_update(ctx, id, b)
        /\ prev' = Snapshot
        /\ UNCHANGED <<caller, tokens, now>>
        /\ UNCHANGED <<procs, coin_packages, system_settings, reply, moved>>

\* The user routes that write users.coin_balance.
NextUsers ==
    \/ UsersUpdateProfile
    \/ UsersUpdate

SpecUsers == Init /\ [][NextUsers]_vars

\* ----------------------------------------------------- administrator routes
\* The routes behind adminProcedure that decide on works and transactions.
\* adminProcedure is protectedProcedure followed by the role check; the
\* handler runs when both have passed.
\* taskWorks.verify
taskWorks_verify(ctx, id, method, notes) ==
    IF Unauthorized(ctx) THEN Refuse("taskWorks.verify", ctx, id, "UNAUTHORIZED")
    ELSE IF NotAdmin(ctx) THEN Refuse("taskWorks.verify", ctx, id, "FORBIDDEN")
    ELSE verifyTaskWork(id, method, notes)

\* taskWorks.reject
taskWorks_reject(ctx, id, reason) ==
    IF Unauthorized(ctx) THEN Refuse("taskWorks.reject", ctx, id, "UNAUTHORIZED")
    ELSE IF NotAdmin(ctx) THEN Refuse("taskWorks.reject", ctx, id, "FORBIDDEN")
    ELSE rejectTaskWork(id, reason)

\* taskWorks.autoVerify
taskWorks_autoVerify(ctx, id) ==
    IF Unauthorized(ctx) THEN Refuse("taskWorks.autoVerify", ctx, id, "UNAUTHORIZED")
    ELSE IF NotAdmin(ctx) THEN Refuse("taskWorks.autoVerify", ctx, id, "FORBIDDEN")
    ELSE autoVerifyTaskWork(id)

\* transactions.update
transactions_update(ctx, id, status) ==
    IF Unauthorized(ctx) THEN Refuse("transactions.update", ctx, id, "UNAUTHORIZED")
    ELSE IF NotAdmin(ctx) THEN Refuse("transactions.update", ctx, id, "FORBIDDEN")
    ELSE updateTransaction(id, status)

\* transactions.processTopup
transactions_processTopup(ctx, id) ==
    IF Unauthorized(ctx)
        THEN Refuse("transactions.processTopup", ctx, id, "UNAUTHORIZED") /\ UNCHANGED moved
    ELSE IF NotAdmin(ctx)
        THEN Refuse("transactions.processTopup", ctx, id, "FORBIDDEN") /\ UNCHANGED moved
    ELSE processTopup(id)

\* transactions.processWithdrawal
transactions_processWithdrawal(ctx, id) ==
    IF Unauthorized(ctx)
        THEN Refuse("transactions.processWithdrawal", ctx, id, "UNAUTHORIZED") /\ UNCHANGED moved
    ELSE IF NotAdmin(ctx)
        THEN Refuse("transactions.processWithdrawal", ctx, id, "FORBIDDEN") /\ UNCHANGED moved
    ELSE processWithdrawal(id)

TaskWorksVerify ==
    \E ctx \in Contexts, id \in WorkIds, m \in Methods, n \in Notes :
        /\ taskWorks_verify(ctx, id, m, n)
        /\ caller' = ctx
        /\ UNCHANGED <<tokens, now>>
        /\ prev' = Snapshot
        /\ UNCHANGED <<procs, coin_packages, system_settings, reply, moved>>

TaskWorksReject ==
    \E ctx \in Contexts, id \in WorkIds, r \in Reasons :
        /\ taskWorks_reject(ctx, id, r)
        /\ caller' = ctx
        /\ UNCHANGED <<tokens, now>>
        /\ prev' = Snapshot
        /\ UNCHANGED <<procs, coin_packages, system_settings, reply, moved>>

TaskWorksAutoVerify ==
    \E ctx \in Contexts, id \in WorkIds :
        /\ taskWorks_autoVerify(ctx, id)
        /\ caller' = ctx
        /\ UNCHANGED <<tokens, now>>
        /\ prev' = Snapshot
        /\ UNCHANGED <<procs, coin_packages, system_settings, reply, moved>>

TransactionsUpdate ==
    \E ctx \in Contexts, id \in TxnIds, st \in TransactionStatus :
        /\ transactions_update(ctx, id, st)
        /\ caller' = ctx
        /\ UNCHANGED <<tokens, now>>
        /\ prev' = Snapshot
        /\ UNCHANGED <<procs, coin_packages, system_settings, reply, moved>>

TransactionsProcessTopup ==
    \E ctx \in Contexts, id \in TxnIds :
        /\ transactions_processTopup(ctx, id)
        /\ caller' = ctx
        /\ UNCHANGED <<tokens, now>>
        /\ prev' = Snapshot
        /\ UNCHANGED <<procs, coin_packages, system_settings, reply>>

TransactionsProcessWithdrawal ==
    \E ctx \in Contexts, id \in TxnIds :
        /\ transactions_processWithdrawal(ctx, id)
        /\ caller' = ctx
        /\ UNCHANGED <<tokens, now>>
        /\ prev' = Snapshot
        /\ UNCHANGED <<procs, coin_packages, system_settings, reply>>

\* The tables the administrator routes are called on: user 1 has created
\* a task of one interaction at price 1 (createTask), user 2 may have worked
\* on it (createTaskWork) and a user may have asked for a top-up or a
\* withdrawal (createTransaction).
AdminWorks ==
    {<<>>,
     <<[task_id |-> 1, worker_id |-> 2, coins_earned |-> 1, verified_at |-> NULL,
        verification_method |-> NULL, admin_notes |-> NULL]>>}

AdminTransactions ==
    {<<>>} \cup
    {<<[user_id |-> 1, type |-> ty, amount |-> a, status |-> "pending",
        processed_at |-> NULL]>> : ty \in TransactionType, a \in 1..MaxAmount}

InitAdmin ==
    /\ users = [u \in UserIds |-> [coin_balance |-> IF u = 1 THEN StartCoins - 1 ELSE 0]]
    /\ tasks = <<[creator_id |-> 1, target_interactions |-> 1, coins_per_interaction |-> 1,
                  total_coins_allocated |-> 1, completed_interactions |-> 0,
                  status |-> "active"]>>
    /\ task_works \in AdminWorks
    /\ transactions \in AdminTransactions
    /\ last = Call("none", 0, 0, 0, 0, "", "", TRUE, "")
    /\ expected = [u \in UserIds |-> users[u].coin_balance]
    /\ faults = 0
    /\ procs = [p \in ProcIds |-> Idle]
    /\ coin_packages = <<>>
    /\ system_settings = [k \in SettingKeys |-> <<>>]
    /\ reply = NULL
    /\ moved = {}
    /\ caller = NoCaller
    /\ tokens = {}
    /\ now = 0
    /\ prev = Snapshot

NextAdmin ==
    \/ TaskWorksVerify
    \/ TaskWorksReject
    \/ TaskWorksAutoVerify
    \/ TransactionsUpdate
    \/ TransactionsProcessTopup
    \/ TransactionsProcessWithdrawal

SpecAdmin == InitAdmin /\ [][NextAdmin]_vars

\* ------------------------------------------------- reading transactions
\* The handlers return rows; reply holds them by id.
\* getTransactionsByUser(userId), called by the route op for the caller ctx
getTransactionsByUser(op, ctx, userId) ==
    IF userId \notin DOMAIN users THEN
        /\ last' = Call(op, ctx.id, 0, 0, 0, ctx.role, "", FALSE, "User not found")
        /\ UNCHANGED reply
    ELSE
        /\ last' = Call(op, ctx.id, 0, 0, 0, ctx.role, "", TRUE, "")
        /\ reply' = [id \in {i \in DOMAIN transactions : transactions[i].user_id = userId}
                        |-> transactions[id]]

\* getTransactionById(id): the row, or null (no row)
getTransactionById(op, ctx, id) ==
    /\ last' = Call(op, ctx.id, id, 0, 0, ctx.role, "", TRUE, "")
    /\ reply' = [i \in {id} \cap DOMAIN transactions |-> transactions[i]]

\* getAllTransactions()
getAllTransactions(op, ctx) ==
    /\ last' = Call(op, ctx.id, 0, 0, 0, ctx.role, "", TRUE, "")
    /\ reply' = [i \in DOMAIN transactions |-> transactions[i]]

\* A reading route refusing the caller before any handler runs
RefuseRead(op, ctx, id, code) ==
    /\ last' = Call(op, ctx.id, id, 0, 0, ctx.role, "", FALSE, code)
    /\ UNCHANGED reply

\* transactions.getMyTransactions
transactions_getMyTransactions(ctx) ==
    IF Unauthorized(ctx)
        THEN RefuseRead("transactions.getMyTransactions", ctx, 0, "UNAUTHORIZED")
    ELSE getTransactionsByUser("transactions.getMyTransactions", ctx, ctx.id)

\* transactions.getById
transactions_getById(ctx, id) ==
    IF Unauthorized(ctx) THEN RefuseRead("transactions.getById", ctx, id, "UNAUTHORIZED")
    ELSE getTransactionById("transactions.getById", ctx, id)

\* transactions.getAll
transactions_getAll(ctx) ==
    IF Unauthorized(ctx) THEN RefuseRead("transactions.getAll", ctx, 0, "UNAUTHORIZED")
    ELSE IF NotAdmin(ctx) THEN RefuseRead("transactions.getAll", ctx, 0, "FORBIDDEN")
    ELSE getAllTransactions("transactions.getAll", ctx)

TransactionsGetMyTransactions ==
    \E ctx \in Contexts :
        /\ transactions_getMyTransactions(ctx)
        /\ prev' = Snapshot
        /\ UNCHANGED <<users, tasks, task_works, transactions, expected, faults>>
        /\ UNCHANGED <<procs, coin_packages, system_settings, moved, caller, tokens, now>>

TransactionsGetById ==
    \E ctx \in Contexts, id \in TxnIds :
        /\ transactions_getById(ctx, id)
        /\ prev' = Snapshot
        /\ UNCHANGED <<users, tasks, task_works, transactions, expected, faults>>
        /\ UNCHANGED <<procs, coin_packages, system_settings, moved, caller, tokens, now>>

TransactionsGetAll ==
    \E ctx \in Contexts :
        /\ transactions_getAll(ctx)
        /\ prev' = Snapshot
        /\ UNCHANGED <<users, tasks, task_works, transactions, expected, faults>>
        /\ UNCHANGED <<procs, coin_packages, system_settings, moved, caller, tokens, now>>

\* The transactions a user has created and the routes that read them.
NextReads ==
    \/ CreateTransaction
    \/ TransactionsGetMyTransactions
    \/ TransactionsGetById
    \/ TransactionsGetAll

SpecReads == Init /\ [][NextReads]_vars

\* --------------------------------------------------------- authentication
\* The users rows carry the status column here. A user is known by their
\* email, which the model identifies with the id of the row; a password is
\* the right one or a wrong one. A token is its payload and whether its
\* signature was made with JWT_SECRET.
UserStatus == {"active", "suspended", "blocked"}

\* createJWT: exp = now + 7 days, signed with the secret
createJWT(userId) == [userId |-> userId, exp |-> now + TokenLife, signed |-> TRUE]

\* A token that was not signed with the secret.
ForgedToken == [userId |-> 1, exp |-> MaxTime + TokenLife, signed |-> FALSE]

\* verifyJWT: the error it throws, or "" when the payload is returned
verifyJWT(token) ==
    IF ~token.signed THEN "Invalid token signature"
    ELSE IF token.exp < now THEN "Token has expired"
    ELSE ""

\* Mutant of Inactive: the status of the account is not looked at.
Inactive_Never(user) == FALSE

\* user.status !== 'active'
Inactive(user) == user.status # "active"

\* login(input)
login(email, passwordValid) ==
    LET op(ok, err) ==
            Call("login", email, 0, 0, now, IF passwordValid THEN "password" ELSE "wrong password",
                 "", ok, err)
        fail(err) == /\ last' = op(FALSE, err)
                     /\ UNCHANGED tokens
    IN
    /\ IF email \notin DOMAIN users THEN fail("Invalid credentials")
       ELSE IF Inactive(users[email]) THEN fail("Account is suspended or blocked")
       ELSE IF ~passwordValid THEN fail("Invalid credentials")
       ELSE
           /\ tokens' = tokens \cup {createJWT(email)}
           /\ last' = op(TRUE, "")
    /\ UNCHANGED <<users, tasks, task_works, transactions, expected, faults>>

\* verifyToken(token)
verifyToken(token) ==
    LET op(ok, err) ==
            Call("verifyToken", token.userId, 0, token.exp, now,
                 IF token.signed THEN "signed" ELSE "forged", "", ok, err)
    IN
    /\ last' = IF verifyJWT(token) # "" THEN op(FALSE, verifyJWT(token))
               ELSE IF token.userId \notin DOMAIN users THEN op(FALSE, "User not found")
               ELSE IF Inactive(users[token.userId])
                   THEN op(FALSE, "Account is suspended or blocked")
               ELSE op(TRUE, "")
    /\ UNCHANGED <<users, tasks, task_works, transactions, expected, faults, tokens>>

\* The UPDATE of users.status that blockUser, suspendUser and updateUser make
setStatus(op, userId, status) ==
    IF userId \notin DOMAIN users THEN
        /\ last' = Call(op, 0, userId, 0, now, status, "", FALSE, "User not found")
        /\ UNCHANGED <<users, tasks, task_works, transactions, expected, faults, tokens>>
    ELSE
        /\ users' = [users EXCEPT ![userId].status = status]
        /\ last' = Call(op, 0, userId, 0, now, status, "", TRUE, "")
        /\ UNCHANGED <<tasks, task_works, transactions, expected, faults, tokens>>

\* blockUser(userId)
blockUser(userId) == setStatus("blockUser", userId, "blocked")

\* suspendUser(userId)
suspendUser(userId) == setStatus("suspendUser", userId, "suspended")

\* updateUser(input) with input.status given and nothing else
updateUser_status(userId, status) == setStatus("updateUser", userId, status)

Login ==
    \E email \in CallerIds, passwordValid \in BOOLEAN :
        /\ login(email, passwordValid)
        /\ prev' = Snapshot
        /\ UNCHANGED <<procs, coin_packages, system_settings, reply, moved, caller, now>>

VerifyToken ==
    \E token \in tokens \cup {ForgedToken} :
        /\ verifyToken(token)
        /\ prev' = Snapshot
        /\ UNCHANGED <<procs, coin_packages, system_settings, reply, moved, caller, now>>

BlockUser ==
    \E userId \in CallerIds :
        /\ blockUser(userId)
        /\ prev' = Snapshot
        /\ UNCHANGED <<procs, coin_packages, system_settings, reply, moved, caller, now>>

SuspendUser ==
    \E userId \in CallerIds :
        /\ suspendUser(userId)
        /\ prev' = Snapshot
        /\ UNCHANGED <<procs, coin_packages, system_settings, reply, moved, caller, now>>

UpdateUserStatus ==
    \E userId \in CallerIds, status \in UserStatus :
        /\ updateUser_status(userId, status)
        /\ prev' = Snapshot
        /\ UNCHANGED <<procs, coin_packages, system_settings, reply, moved, caller, now>>

\* Time passes between two calls.
Tick ==
    /\ now < MaxTime
    /\ now' = now + 1
    /\ UNCHANGED <<users, tasks, task_works, transactions, last, expected, faults, prev,
                   procs, coin_packages, system_settings, reply, moved, caller, tokens>>

InitAuth ==
    /\ users = [u \in UserIds |-> [coin_balance |-> 0, status |-> "active"]]
    /\ tasks = <<>>
    /\ task_works = <<>>
    /\ transactions = <<>>
    /\ last = Call("none", 0, 0, 0, 0, "", "", TRUE, "")
    /\ expected = [u \in UserIds |-> users[u].coin_balance]
    /\ faults = 0
    /\ procs = [p \in ProcIds |-> Idle]
    /\ coin_packages = <<>>
    /\ system_settings = [k \in SettingKeys |-> <<>>]
    /\ reply = NULL
    /\ moved = {}
    /\ caller = NoCaller
    /\ tokens = {}
    /\ now = 0
    /\ prev = Snapshot

NextAuth ==
    \/ Login
    \/ VerifyToken
    \/ BlockUser
    \/ SuspendUser
    \/ UpdateUserStatus
    \/ Tick

SpecAuth == InitAuth /\ [][NextAuth]_vars

\* ------------------------------------------------------------ task routes
\* updateTask, pauseTask and cancelTask of handlers/tasks.ts are placeholder
\* declarations: each resolves to a task object built from its input and
\* from literals, and executes no statement on the store.
TaskStatus == {"active", "completed", "paused", "cancelled"}
PlaceholderTarget == 100
PlaceholderPrice == 1

\* input.x || d for an optional positive integer
OrDefault(x, d) == IF x = Undefined THEN d ELSE x

\* Mutant of updateTask: the input's target_interactions is written to the
\* row, total_coins_allocated is left as it was.
updateTask_Writes(id, T, P, status) ==
    /\ last' = Call("updateTask", 0, id, OrDefault(T, PlaceholderTarget),
                    OrDefault(P, PlaceholderPrice),
                    IF status = NULL THEN "active" ELSE status, "", TRUE, "")
    /\ tasks' = IF id \in DOMAIN tasks /\ T # Undefined
                THEN [tasks EXCEPT ![id].target_interactions = T]
                ELSE tasks
    /\ UNCHANGED <<users, task_works, transactions, expected, faults>>

\* updateTask(input): last.x, last.y and last.s are target_interactions,
\* coins_per_interaction and status of the object returned
updateTask(id, T, P, status) ==
    /\ last' = Call("updateTask", 0, id, OrDefault(T, PlaceholderTarget),
                    OrDefault(P, PlaceholderPrice),
                    IF status = NULL THEN "active" ELSE status, "", TRUE, "")
    /\ UNCHANGED <<users, tasks, task_works, transactions, expected, faults>>

\* pauseTask(taskId)
pauseTask(id) ==
    /\ last' = Call("pauseTask", 0, id, 0, 0, "paused", "", TRUE, "")
    /\ UNCHANGED <<users, tasks, task_works, transactions, expected, faults>>

\* cancelTask(taskId)
cancelTask(id) ==
    /\ last' = Call("cancelTask", 0, id, 0, 0, "cancelled", "", TRUE, "")
    /\ UNCHANGED <<users, tasks, task_works, transactions, expected, faults>>

UpdateTask ==
    \E id \in TaskIds, T \in {Undefined} \cup Targets, P \in {Undefined} \cup Prices,
       st \in {NULL} \cup TaskStatus :
        /\ updateTask(id, T, P, st)
        /\ prev' = Snapshot
        /\ UNCHANGED <<caller, tokens, now>>
        /\ UNCHANGED <<procs, coin_packages, system_settings, reply, moved>>

PauseTask ==
    \E id \in TaskIds :
        /\ pauseTask(id)
        /\ prev' = Snapshot
        /\ UNCHANGED <<caller, tokens, now>>
        /\ UNCHANGED <<procs, coin_packages, system_settings, reply, moved>>

CancelTask ==
    \E id \in TaskIds :
        /\ cancelTask(id)
        /\ prev' = Snapshot
        /\ UNCHANGED <<caller, tokens, now>>
        /\ UNCHANGED <<procs, coin_packages, system_settings, reply, moved>>

\* The task handlers.
NextTasks ==
    \/ CreateTask
    \/ UpdateTask
    \/ PauseTask
    \/ CancelTask

SpecTasks == Init /\ [][NextTasks]_vars

\* ----------------------------------------------------------- coin packages
\* A price is a decimal number of major units. The model writes it in
\* thousandths (9990 is 9.99), so that prices with more than two decimal
\* places exist; the price column holds integer cents.
PricesMilli == 1..MaxPriceMilli
PaymentMethod == {"midtrans", "xendit", "duitku", "manual"}
PaymentInputs == PaymentMethod \cup {"cash"}
BonusInputs == {Undefined} \cup 0..MaxBonus

\* Math.round(input.price * 100). A price ending in 5 thousandths has no
\* exact double: price * 100 lies just below or just above the tie, and
\* Math.round gives the cent below or the cent above accordingly.
RoundCents(milli) ==
    IF milli % 10 = 5 THEN {milli \div 10, milli \div 10 + 1}
    ELSE {(milli + 5) \div 10}

\* Mutant of ToPrice: the stored cents returned as they are.
ToPrice_Raw(cents) == cents

\* parseFloat((pkg.price / 100).toFixed(2)): cents to major units, in
\* thousandths
ToPrice(cents) == cents * 10

\* { ...pkg, price: ... }: the package object a handler returns
PackageView(pkg) == [pkg EXCEPT !.price = ToPrice(pkg.price)]

\* createCoinPackage(input); cents: the value of Math.round
createCoinPackage(coin_amount, price, bonus_coins, cents) ==
    LET op(ok, err) == Call("createCoinPackage", 0, 0, price, coin_amount, "", "", ok, err)
        row == [coin_amount |-> coin_amount,
                price |-> cents,
                bonus_coins |-> IF bonus_coins = Undefined THEN 0 ELSE bonus_coins,
                is_active |-> TRUE]
    IN
    /\ cents \in RoundCents(price)
    /\ IF ~InRange(cents) THEN
           /\ last' = op(FALSE, "integer out of range")
           /\ reply' = NULL
           /\ UNCHANGED coin_packages
       ELSE
           /\ Len(coin_packages) < MaxPackages
           /\ coin_packages' = Append(coin_packages, row)
           /\ last' = [op(TRUE, "") EXCEPT !.id = Len(coin_packages) + 1]
           /\ reply' = PackageView(row)
    /\ UNCHANGED <<users, tasks, task_works, transactions, expected, faults,
                   system_settings>>

\* getCoinPackageById(id)
getCoinPackageById(id) ==
    /\ last' = Call("getCoinPackageById", 0, id, 0, 0, "", "", TRUE, "")
    /\ reply' = IF id \in DOMAIN coin_packages THEN PackageView(coin_packages[id])
                ELSE NULL
    /\ UNCHANGED <<users, tasks, task_works, transactions, expected, faults,
                   coin_packages, system_settings>>

\* getCoinPackages(): the active packages, by id
getCoinPackages ==
    /\ last' = Call("getCoinPackages", 0, 0, 0, 0, "", "", TRUE, "")
    /\ reply' = [id \in {i \in DOMAIN coin_packages : coin_packages[i].is_active}
                    |-> PackageView(coin_packages[id])]
    /\ UNCHANGED <<users, tasks, task_works, transactions, expected, faults,
                   coin_packages, system_settings>>

\* deactivateCoinPackage(id)
deactivateCoinPackage(id) ==
    LET op(ok, err) == Call("deactivateCoinPackage", 0, id, 0, 0, "", "", ok, err)
    IN
    /\ IF id \notin DOMAIN coin_packages THEN
           /\ last' = op(FALSE, "Coin package not found")
           /\ reply' = NULL
           /\ UNCHANGED coin_packages
       ELSE
           /\ coin_packages' = [coin_packages EXCEPT ![id].is_active = FALSE]
           /\ last' = op(TRUE, "")
           /\ reply' = PackageView(coin_packages'[id])
    /\ UNCHANGED <<users, tasks, task_works, transactions, expected, faults,
                   system_settings>>

\* Mutant of PurchaseAmount: the bonus left out.
PurchaseAmount_NoBonus(pkg) == pkg.coin_amount

\* amount: coinPackage.coin_amount + coinPackage.bonus_coins
PurchaseAmount(pkg) == pkg.coin_amount + pkg.bonus_coins

\* purchaseCoinPackage(packageId, userId, paymentMethod)
purchaseCoinPackage(packageId, userId, paymentMethod) ==
    LET op(ok, err) ==
            Call("purchaseCoinPackage", userId, packageId, 0, 0, paymentMethod, "", ok, err)
        fail(err) == /\ last' = op(FALSE, err)
                     /\ reply' = NULL
                     /\ UNCHANGED transactions
    IN
    /\ IF paymentMethod \notin PaymentMethod THEN fail("ZodError")
       ELSE IF \/ packageId \notin DOMAIN coin_packages
               \/ ~coin_packages[packageId].is_active
           THEN fail("Coin package not found or inactive")
       ELSE IF userId \notin UserIds THEN fail("User not found")
       ELSE
           /\ Len(transactions) < MaxTxns
           /\ transactions' = Append(transactions,
                 [user_id |-> userId,
                  type |-> "topup",
                  amount |-> PurchaseAmount(coin_packages[packageId]),
                  status |-> "pending",
                  processed_at |-> NULL])
           /\ last' = [op(TRUE, "") EXCEPT !.x = Len(transactions) + 1]
           /\ reply' = [transaction |-> transactions'[Len(transactions) + 1],
                        package |-> PackageView(coin_packages[packageId])]
    /\ UNCHANGED <<users, tasks, task_works, expected, faults, coin_packages,
                   system_settings>>

PackageIds == 1..(Len(coin_packages) + 1)

CreateCoinPackage ==
    \E ca \in 1..MaxCoinAmount, pr \in PricesMilli, b \in BonusInputs :
      \E c \in RoundCents(pr) :
        /\ createCoinPackage(ca, pr, b, c)
        /\ prev' = Snapshot
        /\ UNCHANGED <<caller, tokens, now>>
        /\ UNCHANGED <<procs, moved>>

GetCoinPackageById ==
    \E id \in PackageIds :
        /\ getCoinPackageById(id)
        /\ prev' = Snapshot
        /\ UNCHANGED <<caller, tokens, now>>
        /\ UNCHANGED <<procs, moved>>

GetCoinPackages ==
    /\ getCoinPackages
    /\ prev' = Snapshot
    /\ UNCHANGED <<caller, tokens, now>>
    /\ UNCHANGED <<procs, moved>>

DeactivateCoinPackage ==
    \E id \in PackageIds :
        /\ deactivateCoinPackage(id)
        /\ prev' = Snapshot
        /\ UNCHANGED <<caller, tokens, now>>
        /\ UNCHANGED <<procs, moved>>

PurchaseCoinPackage ==
    \E id \in PackageIds, u \in CallerIds, pm \in PaymentInputs :
        /\ purchaseCoinPackage(id, u, pm)
        /\ prev' = Snapshot
        /\ UNCHANGED <<caller, tokens, now>>
        /\ UNCHANGED <<procs, moved>>

\* The coin package handlers and the processing of the top-ups they create.
NextPackages ==
    \/ CreateCoinPackage
    \/ GetCoinPackageById
    \/ GetCoinPackages
    \/ DeactivateCoinPackage
    \/ PurchaseCoinPackage
    \/ ProcessTopup

SpecPackages == Init /\ [][NextPackages]_vars

\* ------------------------------------------------------- transaction stats
\* Mutant of Counted: rows of every status enter the total.
Counted_AnyStatus(row, type) == row.type = type

\* where(and(eq(type, ...), eq(status, 'completed')))
Counted(row, type) == row.type = type /\ row.status = "completed"

\* sum(transactionsTable.amount) over the selected rows, `|| 0` where no row
\* is selected, read with Number()
RECURSIVE SumAmount(_, _, _)
SumAmount(rows, type, i) ==
    IF i > Len(rows) THEN 0
    ELSE (IF Counted(rows[i], type) THEN rows[i].amount ELSE 0)
             + SumAmount(rows, type, i + 1)

\* count(transactionsTable.id) where status = 'pending'
CountPending(rows) == Cardinality({i \in DOMAIN rows : rows[i].status = "pending"})

\* getTransactionStats()
getTransactionStats ==
    LET totalTopups == SumAmount(transactions, "topup", 1)
        totalWithdrawals == SumAmount(transactions, "withdrawal", 1)
    IN
    /\ reply' = [totalTopups |-> totalTopups,
                 totalWithdrawals |-> totalWithdrawals,
                 totalVolume |-> totalTopups + totalWithdrawals,
                 pendingTransactions |-> CountPending(transactions)]
    /\ last' = Call("getTransactionStats", 0, 0, 0, 0, "", "", TRUE, "")
    /\ UNCHANGED <<users, tasks, task_works, transactions, expected, faults,
                   coin_packages, system_settings>>

GetTransactionStats ==
    /\ getTransactionStats
    /\ prev' = Snapshot
    /\ UNCHANGED <<caller, tokens, now>>
    /\ UNCHANGED <<procs, moved>>

\* The tables the statistics are taken of: every transactions table of up to
\* MaxStatRows rows that createTransaction, updateTransaction, processTopup
\* and processWithdrawal can leave behind. processed_at is set on the rows
\* that were completed or failed.
StatRows ==
    {[user_id |-> 1, type |-> ty, amount |-> a, status |-> st,
      processed_at |-> IF st \in {"completed", "failed"} THEN STAMP ELSE NULL] :
        ty \in TransactionType, a \in Amounts, st \in TransactionStatus}

StatTables == UNION {[1..n -> StatRows] : n \in 0..MaxStatRows}

InitStats ==
    /\ users = [u \in UserIds |-> [coin_balance |-> IF u = 1 THEN StartCoins ELSE 0]]
    /\ tasks = <<>>
    /\ task_works = <<>>
    /\ transactions \in StatTables
    /\ last = Call("none", 0, 0, 0, 0, "", "", TRUE, "")
    /\ expected = [u \in UserIds |-> users[u].coin_balance]
    /\ faults = 0
    /\ procs = [p \in ProcIds |-> Idle]
    /\ coin_packages = <<>>
    /\ system_settings = [k \in SettingKeys |-> <<>>]
    /\ reply = NULL
    /\ moved = {}
    /\ caller = NoCaller
    /\ tokens = {}
    /\ now = 0
    /\ prev = Snapshot

NextStats == GetTransactionStats

SpecStats == InitStats /\ [][NextStats]_vars

\* --------------------------------------------------------- system settings
\* A setting's value is a text: a sequence of characters. These are the
\* texts the handlers write themselves ('0.05', '1', '100') and four an
\* admin may store with updateSystemSetting.
SettingValues ==
    { <<"0", ".", "0", "5">>, <<"1">>, <<"1", "0", "0">>,
      <<"0", ".", "0", "8">>, <<"1", ".", "5">>, <<"1", "2", "p", "x">>,
      <<"a", "b", "c">> }

\* NaN of JavaScript; no text of the model reads as a negative number
NaN == 0 - 1

Digits == <<"0", "1", "2", "3", "4", "5", "6", "7", "8", "9">>
IsDigit(c) == \E d \in 1..10 : Digits[d] = c
DigitVal(c) == (CHOOSE d \in 1..10 : Digits[d] = c) - 1

\* how many digits stand at s[i], s[i+1], ...
RECURSIVE DigitsLen(_, _)
DigitsLen(s, i) ==
    IF i > Len(s) THEN 0
    ELSE IF ~IsDigit(s[i]) THEN 0
    ELSE 1 + DigitsLen(s, i + 1)

\* the number written by the digits s[i] .. s[j]
RECURSIVE DigitsValue(_, _, _)
DigitsValue(s, i, j) ==
    IF j < i THEN 0 ELSE DigitsValue(s, i, j - 1) * 10 + DigitVal(s[j])

RECURSIVE Pow10(_)
Pow10(k) == IF k = 0 THEN 1 ELSE 10 * Pow10(k - 1)

\* parseInt(text): the leading digits, NaN when there is none
parseInt(s) ==
    LET n == DigitsLen(s, 1)
    IN IF n = 0 THEN NaN ELSE DigitsValue(s, 1, n)

\* parseFloat(text): the leading digits [. digits], NaN when there is no
\* digit; the number is given in thousandths (50 is 0.05)
parseFloat(s) ==
    LET n == DigitsLen(s, 1)
        m == IF n < Len(s) /\ s[n + 1] = "." THEN DigitsLen(s, n + 2) ELSE 0
        k == IF m > 3 THEN 3 ELSE m
    IN IF n + m = 0 THEN NaN
       ELSE DigitsValue(s, 1, n) * 1000 + DigitsValue(s, n + 2, n + 1 + k) * Pow10(3 - k)

\* the numbers the readers return for a setting they had to create
DefaultCommissionMilli == 50
DefaultMinCoins == 1
DefaultMaxCoins == 100
DefaultMinWithdrawal == 100

\* Mutant of DefaultSetting: the minimum and the maximum exchanged.
DefaultSetting_Swapped(key) ==
    CASE key = "commission_rate" -> <<"0", ".", "0", "5">>
      [] key = "min_coins_per_interaction" -> <<"1", "0", "0">>
      [] key = "max_coins_per_interaction" -> <<"1">>
      [] key = "min_withdrawal_amount" -> <<"1", "0", "0">>

\* value: '0.05' / '1' / '100' / '100' of the settings the readers create
DefaultSetting(key) ==
    CASE key = "commission_rate" -> <<"0", ".", "0", "5">>
      [] key = "min_coins_per_interaction" -> <<"1">>
      [] key = "max_coins_per_interaction" -> <<"1", "0", "0">>
      [] key = "min_withdrawal_amount" -> <<"1", "0", "0">>

\* getSystemSetting(key): results.length > 0 ? results[0] : null
Missing(table, key) == table[key] = <<>>

\* updateSystemSetting(input) on the table: update the row of the key, or
\* insert one
Upsert(table, key, value) == [table EXCEPT ![key] = <<value>>]

\* Mutant of WithDefault: the default is written over the stored value.
WithDefault_Always(table, key) == Upsert(table, key, DefaultSetting(key))

\* the table after `if (!setting) await updateSystemSetting(default)`
WithDefault(table, key) ==
    IF Missing(table, key) THEN Upsert(table, key, DefaultSetting(key)) ELSE table

\* getSystemSetting(key)
getSystemSetting(key) ==
    /\ last' = Call("getSystemSetting", 0, 0, 0, 0, key, "", TRUE, "")
    /\ reply' = system_settings[key]
    /\ UNCHANGED <<users, tasks, task_works, transactions, expected, faults,
                   coin_packages, system_settings>>

\* updateSystemSetting(input)
updateSystemSetting(key, value) ==
    /\ system_settings' = Upsert(system_settings, key, value)
    /\ last' = Call("updateSystemSetting", 0, 0, 0, 0, key, "", TRUE, "")
    /\ reply' = <<value>>
    /\ UNCHANGED <<users, tasks, task_works, transactions, expected, faults,
                   coin_packages>>

\* getCommissionRate()
getCommissionRate ==
    LET key == "commission_rate"
        op(ok, err) == Call("getCommissionRate", 0, 0, 0, 0, key, "", ok, err)
    IN
    /\ IF Missing(system_settings, key) THEN
           /\ system_settings' = WithDefault(system_settings, key)
           /\ reply' = DefaultCommissionMilli
           /\ last' = op(TRUE, "")
       ELSE LET rate == parseFloat(system_settings[key][1]) IN
           /\ IF rate = NaN
              THEN /\ last' = op(FALSE, "Invalid commission rate value")
                   /\ reply' = NULL
              ELSE /\ last' = op(TRUE, "")
                   /\ reply' = rate
           /\ UNCHANGED system_settings
    /\ UNCHANGED <<users, tasks, task_works, transactions, expected, faults,
                   coin_packages>>

\* minCoins ? parseInt(minCoins.value) : 1
LimitValue(table, key, default) ==
    IF Missing(table, key) THEN default ELSE parseInt(table[key][1])

\* getCoinLimits(): the missing settings are created before the values read
\* are validated
getCoinLimits ==
    LET op(ok, err) == Call("getCoinLimits", 0, 0, 0, 0, "", "", ok, err)
        minCoinsValue ==
            LimitValue(system_settings, "min_coins_per_interaction", DefaultMinCoins)
        maxCoinsValue ==
            LimitValue(system_settings, "max_coins_per_interaction", DefaultMaxCoins)
        minWithdrawalValue ==
            LimitValue(system_settings, "min_withdrawal_amount", DefaultMinWithdrawal)
    IN
    /\ system_settings' =
           WithDefault(WithDefault(WithDefault(system_settings,
               "min_coins_per_interaction"), "max_coins_per_interaction"),
               "min_withdrawal_amount")
    /\ IF minCoinsValue = NaN \/ maxCoinsValue = NaN \/ minWithdrawalValue = NaN
       THEN /\ last' = op(FALSE, "Invalid coin limit values")
            /\ reply' = NULL
       ELSE /\ last' = op(TRUE, "")
            /\ reply' = [minCoinsPerInteraction |-> minCoinsValue,
                         maxCoinsPerInteraction |-> maxCoinsValue,
                         minWithdrawalAmount |-> minWithdrawalValue]
    /\ UNCHANGED <<users, tasks, task_works, transactions, expected, faults,
                   coin_packages>>

GetSystemSetting ==
    \E k \in SettingKeys :
        /\ getSystemSetting(k)
        /\ prev' = Snapshot
        /\ UNCHANGED <<caller, tokens, now>>
        /\ UNCHANGED <<procs, moved>>

UpdateSystemSetting ==
    \E k \in SettingKeys, v \in SettingValues :
        /\ updateSystemSetting(k, v)
        /\ prev' = Snapshot
        /\ UNCHANGED <<caller, tokens, now>>
        /\ UNCHANGED <<procs, moved>>

GetCommissionRate ==
    /\ getCommissionRate
    /\ prev' = Snapshot
    /\ UNCHANGED <<caller, tokens, now>>
    /\ UNCHANGED <<procs, moved>>

GetCoinLimits ==
    /\ getCoinLimits
    /\ prev' = Snapshot
    /\ UNCHANGED <<caller, tokens, now>>
    /\ UNCHANGED <<procs, moved>>

\* The system settings handlers.
NextSettings ==
    \/ GetSystemSetting
    \/ UpdateSystemSetting
    \/ GetCommissionRate
    \/ GetCoinLimits

SpecSettings == Init /\ [][NextSettings]_vars

\* initializeDefaultSettings(): for each of the four default settings, the
\* stored row if there is one, else the row it creates; the four are
\* returned. A row is its value: a row that is not written keeps its other
\* columns too.
initializeDefaultSettings ==
    LET table ==
            WithDefault(WithDefault(WithDefault(WithDefault(system_settings,
                "commission_rate"), "min_coins_per_interaction"),
                "max_coins_per_interaction"), "min_withdrawal_amount")
    IN
    /\ system_settings' = table
    /\ reply' = [k \in SettingKeys |-> table[k][1]]
    /\ last' = Call("initializeDefaultSettings", 0, 0, 0, 0, "", "", TRUE, "")
    /\ UNCHANGED <<users, tasks, task_works, transactions, expected, faults,
                   coin_packages>>

InitializeDefaultSettings ==
    /\ initializeDefaultSettings
    /\ prev' = Snapshot
    /\ UNCHANGED <<procs, moved, caller, tokens, now>>

\* The settings an admin stores and the initialisation of the defaults.
NextDefaults ==
    \/ UpdateSystemSetting
    \/ InitializeDefaultSettings

SpecDefaults == Init /\ [][NextDefaults]_vars

\* getCommissionRate and updateSystemSetting as the sequences of awaited
\* statements they are. getCommissionRate reads the setting and, when there
\* is none, calls updateSystemSetting with the default, which reads the
\* setting again and then updates the row or inserts one.
\* The texts an admin stores while other calls are in flight.
RaceValues == { <<"0", ".", "0", "8">>, <<"a", "b", "c">> }

\* keyUnique: unique().on(key), which the store checks on INSERT
KeyViolation(key) == system_settings[key] # <<>>

\* getCommissionRate: getSystemSetting('commission_rate'); with a row, the
\* value is parsed and returned
getCommissionRate_select(p) ==
    LET key == "commission_rate"
        op(ok, err) == Call("getCommissionRate", 0, 0, 0, 0, key, "", ok, err)
    IN
    /\ procs[p].pc = "idle"
    /\ IF Missing(system_settings, key) THEN
           /\ procs' = [procs EXCEPT ![p] =
                  [Idle EXCEPT !.pc = "updateSystemSetting_select",
                               !.op = "getCommissionRate", !.key = key,
                               !.value = DefaultSetting(key)]]
           /\ UNCHANGED <<last, reply>>
       ELSE LET rate == parseFloat(system_settings[key][1]) IN
           /\ IF rate = NaN
              THEN /\ last' = op(FALSE, "Invalid commission rate value")
                   /\ reply' = NULL
              ELSE /\ last' = op(TRUE, "")
                   /\ reply' = rate
           /\ UNCHANGED procs
    /\ prev' = Snapshot
    /\ UNCHANGED <<users, tasks, task_works, transactions, expected, faults,
                   coin_packages, system_settings, moved, caller, tokens, now>>

\* systemSettings.update: an admin calls updateSystemSetting(input)
updateSystemSetting_call(p) ==
    \E value \in RaceValues :
        /\ procs[p].pc = "idle"
        /\ procs' = [procs EXCEPT ![p] =
               [Idle EXCEPT !.pc = "updateSystemSetting_select",
                            !.op = "updateSystemSetting", !.key = "commission_rate",
                            !.value = value]]
        /\ prev' = Snapshot
        /\ UNCHANGED <<users, tasks, task_works, transactions, last, expected, faults,
                       coin_packages, system_settings, reply, moved, caller, tokens, now>>

\* updateSystemSetting: getSystemSetting(input.key) decides between UPDATE
\* and INSERT
updateSystemSetting_select(p) ==
    /\ procs[p].pc = "updateSystemSetting_select"
    /\ Goto(p, IF Missing(system_settings, procs[p].key)
               THEN "updateSystemSetting_insert" ELSE "updateSystemSetting_update")
    /\ prev' = Snapshot
    /\ UNCHANGED <<users, tasks, task_works, transactions, last, expected, faults,
                   coin_packages, system_settings, reply, moved, caller, tokens, now>>

\* what the call returns once updateSystemSetting has written: the row, or
\* 0.05 from getCommissionRate
Returned(p) ==
    IF procs[p].op = "getCommissionRate" THEN DefaultCommissionMilli
    ELSE <<procs[p].value>>

\* updateSystemSetting: UPDATE system_settings SET value WHERE key, and the
\* call returns
updateSystemSetting_update(p) ==
    /\ procs[p].pc = "updateSystemSetting_update"
    /\ system_settings' = Upsert(system_settings, procs[p].key, procs[p].value)
    /\ last' = Call(procs[p].op, 0, 0, 0, 0, procs[p].key, "update", TRUE, "")
    /\ reply' = Returned(p)
    /\ Finish(p)
    /\ prev' = Snapshot
    /\ UNCHANGED <<users, tasks, task_works, transactions, expected, faults,
                   coin_packages, moved, caller, tokens, now>>

\* updateSystemSetting: INSERT INTO system_settings, and the call returns;
\* the store refuses a second row for the key and the error is rethrown
updateSystemSetting_insert(p) ==
    /\ procs[p].pc = "updateSystemSetting_insert"
    /\ IF KeyViolation(procs[p].key) THEN
           /\ last' = Call(procs[p].op, 0, 0, 0, 0, procs[p].key, "insert", FALSE,
                           "duplicate key value violates unique constraint")
           /\ reply' = NULL
           /\ UNCHANGED system_settings
       ELSE
           /\ system_settings' = Upsert(system_settings, procs[p].key, procs[p].value)
           /\ last' = Call(procs[p].op, 0, 0, 0, 0, procs[p].key, "insert", TRUE, "")
           /\ reply' = Returned(p)
    /\ Finish(p)
    /\ prev' = Snapshot
    /\ UNCHANGED <<users, tasks, task_works, transactions, expected, faults,
                   coin_packages, moved, caller, tokens, now>>

GetCommissionRateSelect == \E p \in ProcIds : getCommissionRate_select(p)
UpdateSystemSettingCall == \E p \in ProcIds : updateSystemSetting_call(p)
UpdateSystemSettingSelect == \E p \in ProcIds : updateSystemSetting_select(p)
UpdateSystemSettingUpdate == \E p \in ProcIds : updateSystemSetting_update(p)
UpdateSystemSettingInsert == \E p \in ProcIds : updateSystemSetting_insert(p)

NextSettingsRace ==
    \/ GetCommissionRateSelect
    \/ UpdateSystemSettingCall
    \/ UpdateSystemSettingSelect
    \/ UpdateSystemSettingUpdate
    \/ UpdateSystemSettingInsert

SpecSettingsRace == Init /\ [][NextSettingsRace]_vars

\* ------------------------------------------------------------------ claims
\* A row no verdict has been given on, and a row rejectTaskWork has written:
\* rejection leaves verified_at null and marks the row by its method.
Pending(work) == work.verified_at = NULL /\ work.verification_method = NULL
Rejected(work) == work.verified_at = NULL /\ work.verification_method = "manual_rejection"

VerdictOps == {"verifyTaskWork", "autoVerifyTaskWork", "rejectTaskWork"}

\* The last call was op and addressed a task_works row that existed.
OnWork(ops) == last.op \in ops /\ last.id \in DOMAIN prev.task_works

\* C1: in every reachable state every user's coin_balance is >= 0.
C1_BalanceNonNegative == \A u \in UserIds : users[u].coin_balance >= 0

\* C2: every user's coin_balance equals the initial balance plus the amounts
\* of the top-ups processed, minus the amounts of the withdrawals processed,
\* minus total_coins_allocated of the tasks created, counting the calls that
\* succeeded.
C2_BalanceEqualsLedger == \A u \in UserIds : users[u].coin_balance = expected[u]

\* C3: a successful createTask with target_interactions = T and
\* coins_per_interaction = P takes exactly T*P from the creator, changes no
\* other balance and appends exactly one task with total_coins_allocated = T*P,
\* completed_interactions = 0 and status active.
C3_CreateTaskDebitsExactly ==
    (last.op = "createTask" /\ last.ok) =>
        LET c == last.who
            cost == last.x * last.y
        IN  /\ users[c].coin_balance = prev.users[c].coin_balance - cost
            /\ \A u \in UserIds \ {c} : users[u].coin_balance = prev.users[u].coin_balance
            /\ Len(tasks) = Len(prev.tasks) + 1
            /\ SubSeq(tasks, 1, Len(prev.tasks)) = prev.tasks
            /\ tasks[Len(tasks)].creator_id = c
            /\ tasks[Len(tasks)].target_interactions = last.x
            /\ tasks[Len(tasks)].coins_per_interaction = last.y
            /\ tasks[Len(tasks)].total_coins_allocated = cost
            /\ tasks[Len(tasks)].completed_interactions = 0
            /\ tasks[Len(tasks)].status = "active"

C3_Witness ==
    /\ last.op = "createTask" /\ last.ok
    /\ last.x = 1 /\ last.y = 2
    /\ users[last.who].coin_balance = prev.users[last.who].coin_balance - 2
    /\ Len(tasks) = 1

\* C4: createTask fails when the creator has no row or has fewer than T*P
\* coins, and then no task is inserted and no balance changes.
C4_CreateTaskRefused ==
    (/\ last.op = "createTask"
     /\ \/ last.who \notin UserIds
        \/ prev.users[last.who].coin_balance < last.x * last.y)
    => /\ ~last.ok
       /\ tasks = prev.tasks
       /\ users = prev.users

C4_Witness ==
    /\ last.op = "createTask"
    /\ last.who \in UserIds
    /\ prev.users[last.who].coin_balance < last.x * last.y
    /\ last.err = "Insufficient coin balance"
    /\ users = prev.users

\* C5: when the INSERT into tasks fails after createTask has debited the
\* creator, the creator's balance after the failed call is the balance before
\* it (debit and insert are all-or-nothing).
C5_FailedCreateTaskKeepsBalance ==
    (last.op = "createTask" /\ last.err = "insert failed") =>
        /\ ~last.ok
        /\ users[last.who].coin_balance = prev.users[last.who].coin_balance

\* C6: a successful verifyTaskWork or autoVerifyTaskWork adds the work's
\* coins_earned to the worker's balance and one to the task's
\* completed_interactions.
C6_VerifyCreditsWorker ==
    (OnWork({"verifyTaskWork", "autoVerifyTaskWork"}) /\ last.ok) =>
        LET w == prev.task_works[last.id]
        IN  /\ users[w.worker_id].coin_balance =
                   prev.users[w.worker_id].coin_balance + w.coins_earned
            /\ tasks[w.task_id].completed_interactions =
                   prev.tasks[w.task_id].completed_interactions + 1

\* C7: a verifyTaskWork, autoVerifyTaskWork or rejectTaskWork call on a work
\* that rejectTaskWork has rejected fails and leaves the row unchanged.
C7_RejectedIsFinal ==
    (OnWork(VerdictOps) /\ Rejected(prev.task_works[last.id])) =>
        /\ ~last.ok
        /\ task_works[last.id] = prev.task_works[last.id]

\* C8: a work whose verified_at is non-null never changes again, and a
\* verifyTaskWork, autoVerifyTaskWork or rejectTaskWork call on it fails with
\* 'already been verified' / 'already been processed'.
C8_VerifiedIsFinal ==
    /\ \A w \in DOMAIN prev.task_works :
          prev.task_works[w].verified_at # NULL => task_works[w] = prev.task_works[w]
    /\ (OnWork(VerdictOps) /\ prev.task_works[last.id].verified_at # NULL) =>
          /\ ~last.ok
          /\ last.err = IF last.op = "rejectTaskWork"
                        THEN "Task work has already been processed"
                        ELSE "Task work has already been verified"

C8_Witness ==
    /\ OnWork({"rejectTaskWork"})
    /\ prev.task_works[last.id].verified_at # NULL
    /\ last.err = "Task work has already been processed"

\* C9: a successful verifyTaskWork on a pending work sets verified_at and the
\* given verification_method and keeps coins_earned, task_id and worker_id;
\* autoVerifyTaskWork does the same with 'api_automatic' and the fixed note.
C9_VerifyFrame ==
    (OnWork({"verifyTaskWork", "autoVerifyTaskWork"}) /\ last.ok
        /\ Pending(prev.task_works[last.id])) =>
        LET old == prev.task_works[last.id]
            new == task_works[last.id]
        IN  /\ new.verified_at # NULL
            /\ new.coins_earned = old.coins_earned
            /\ new.task_id = old.task_id
            /\ new.worker_id = old.worker_id
            /\ last.op = "verifyTaskWork" => new.verification_method = last.s
            /\ last.op = "autoVerifyTaskWork" =>
                  /\ new.verification_method = "api_automatic"
                  /\ new.admin_notes = AutoNote

C9_Witness ==
    /\ OnWork({"verifyTaskWork"}) /\ last.ok
    /\ Pending(prev.task_works[last.id])
    /\ last.s = "automatic"
    /\ task_works[last.id].verification_method = "automatic"
    /\ task_works[last.id].coins_earned > 0

\* C10: a successful rejectTaskWork on a pending work sets coins_earned to 0,
\* verification_method to 'manual_rejection' and admin_notes to the reason,
\* leaves verified_at null and changes no balance.
C10_RejectEffect ==
    (OnWork({"rejectTaskWork"}) /\ last.ok /\ Pending(prev.task_works[last.id])) =>
        /\ task_works[last.id] =
              [prev.task_works[last.id] EXCEPT
                  !.coins_earned = 0,
                  !.verification_method = "manual_rejection",
                  !.admin_notes = last.n]
        /\ task_works[last.id].verified_at = NULL
        /\ users = prev.users

C10_Witness ==
    /\ OnWork({"rejectTaskWork"}) /\ last.ok
    /\ Pending(prev.task_works[last.id])
    /\ prev.task_works[last.id].coins_earned > 0
    /\ task_works[last.id].coins_earned = 0

\* C11: no two task_works rows share (task_id, worker_id), and a
\* createTaskWork for a pair that already has a row fails with the
\* duplicate-work error and leaves all rows unchanged.
C11_OneWorkPerPair ==
    /\ \A a, b \in DOMAIN task_works :
          (/\ task_works[a].task_id = task_works[b].task_id
           /\ task_works[a].worker_id = task_works[b].worker_id) => a = b
    /\ (/\ last.op = "createTaskWork"
        /\ \E w \in DOMAIN prev.task_works :
              /\ prev.task_works[w].task_id = last.id
              /\ prev.task_works[w].worker_id = last.who)
       => /\ ~last.ok
          /\ last.err = "Worker has already completed this task"
          /\ task_works = prev.task_works

C11_Witness ==
    /\ last.op = "createTaskWork"
    /\ last.err = "Worker has already completed this task"
    /\ Len(prev.task_works) = 1
    /\ task_works = prev.task_works

\* C12: no task_works row has the creator of its task as worker, and a
\* createTaskWork by the task's creator fails and inserts nothing.
C12_NoSelfWork ==
    /\ \A w \in DOMAIN task_works :
          task_works[w].task_id \in DOMAIN tasks
              => task_works[w].worker_id # tasks[task_works[w].task_id].creator_id
    /\ (/\ last.op = "createTaskWork"
        /\ last.id \in DOMAIN prev.tasks
        /\ prev.tasks[last.id].creator_id = last.who)
       => /\ ~last.ok
          /\ last.err = "Task creator cannot work on their own task"
          /\ task_works = prev.task_works

C12_Witness ==
    /\ last.op = "createTaskWork"
    /\ last.id \in DOMAIN prev.tasks
    /\ prev.tasks[last.id].creator_id = last.who
    /\ ~last.ok
    /\ task_works = prev.task_works

OnTxn(op, type) ==
    /\ last.op = op
    /\ last.id \in DOMAIN prev.transactions
    /\ prev.transactions[last.id].type = type

C15_OverdrawnWithdrawalFails ==
    (/\ OnTxn("processWithdrawal", "withdrawal")
     /\ prev.transactions[last.id].status = "pending"
     /\ prev.transactions[last.id].amount
            > prev.users[prev.transactions[last.id].user_id].coin_balance)
    => /\ ~last.ok
       /\ last.err = "Insufficient coin balance"
       /\ transactions[last.id].status = "failed"
       /\ users = prev.users

C15_Witness ==
    /\ OnTxn("processWithdrawal", "withdrawal")
    /\ prev.transactions[last.id].status = "pending"
    /\ prev.transactions[last.id].amount
           > prev.users[prev.transactions[last.id].user_id].coin_balance
    /\ transactions[last.id].status = "failed"

\* C16: processWithdrawal on a pending withdrawal of amount A takes exactly
\* A off the user's balance and sets the status to completed when the
\* balance at that moment is at least A, and fails without a debit when it
\* is below A.
C16_WithdrawalDebits ==
    (/\ OnTxn("processWithdrawal", "withdrawal")
     /\ prev.transactions[last.id].status = "pending")
    => LET txn == prev.transactions[last.id] IN
       IF prev.users[txn.user_id].coin_balance >= txn.amount
       THEN /\ last.ok
            /\ users = [prev.users EXCEPT ![txn.user_id].coin_balance = @ - txn.amount]
            /\ transactions[last.id].status = "completed"
       ELSE /\ ~last.ok
            /\ users = prev.users

\* C17: createTransaction changes no balance; when it succeeds it appends
\* one row with status pending and processed_at null; it fails and inserts
\* nothing for an unknown user and for a withdrawal above the balance.
C17_CreateTransactionEffect ==
    last.op = "createTransaction"
    => /\ users = prev.users
       /\ IF \/ last.who \notin UserIds
             \/ (last.s = "withdrawal"
                    /\ prev.users[last.who].coin_balance < last.x)
          THEN /\ ~last.ok
               /\ transactions = prev.transactions
          ELSE /\ last.ok
               /\ Len(transactions) = Len(prev.transactions) + 1
               /\ SubSeq(transactions, 1, Len(prev.transactions)) = prev.transactions
               /\ transactions[Len(transactions)] =
                      [user_id |-> last.who, type |-> last.s, amount |-> last.x,
                       status |-> "pending", processed_at |-> NULL]

C17_Witness ==
    /\ last.op = "createTransaction"
    /\ last.s = "withdrawal"
    /\ last.who \in UserIds
    /\ prev.users[last.who].coin_balance < last.x
    /\ ~last.ok
    /\ transactions = prev.transactions

\* C18: updateTransaction changes no balance whatever status it sets, and
\* a transaction call that changes a balance is a processTopup or a
\* processWithdrawal taking its transaction from pending to completed.
TransactionOps ==
    {"createTransaction", "updateTransaction", "processTopup", "processWithdrawal"}

C18_OnlyProcessingMovesCoins ==
    /\ last.op = "updateTransaction" => users = prev.users
    /\ (last.op \in TransactionOps /\ users # prev.users)
       => /\ last.op \in {"processTopup", "processWithdrawal"}
          /\ last.id \in DOMAIN prev.transactions
          /\ prev.transactions[last.id].status = "pending"
          /\ transactions[last.id].status = "completed"

C18_Witness ==
    /\ last.op = "updateTransaction"
    /\ last.ok
    /\ last.s = "completed"
    /\ prev.transactions[last.id].type = "topup"
    /\ prev.transactions[last.id].status = "pending"
    /\ prev.transactions[last.id].amount = MaxAmount
    /\ users = prev.users

\* C19: whenever no call is in flight, every user's coin_balance is the
\* initial balance plus the credits minus the debits of the calls that
\* reported success, whatever the interleaving of their statements was.
C19_NoLostUpdate ==
    (\A p \in ProcIds : procs[p].pc = "idle")
    => \A u \in UserIds : users[u].coin_balance = expected[u]

\* C20: a call of a user route that changes a coin_balance was made by an
\* admin.
C20_OnlyAdminOverwrites ==
    (last.op \in {"users.updateProfile", "users.update"} /\ users # prev.users)
    => last.s = "admin"

\* C21: every tasks row has total_coins_allocated = target_interactions *
\* coins_per_interaction, and no call changes the total_coins_allocated of
\* a row that exists.
C21_AllocationFixed ==
    /\ \A t \in DOMAIN tasks :
          tasks[t].total_coins_allocated
              = tasks[t].target_interactions * tasks[t].coins_per_interaction
    /\ \A t \in DOMAIN prev.tasks :
          /\ t \in DOMAIN tasks
          /\ tasks[t].total_coins_allocated = prev.tasks[t].total_coins_allocated

C21_Witness ==
    /\ last.op = "updateTask"
    /\ last.id \in DOMAIN prev.tasks
    /\ last.x # prev.tasks[last.id].target_interactions
    /\ last.x \in Targets
    /\ prev.tasks[last.id].total_coins_allocated = MaxTarget * MaxPrice
    /\ tasks = prev.tasks

\* C22: purchaseCoinPackage changes no balance; with a valid payment
\* method, an active package and an existing user it appends exactly one
\* pending topup of amount coin_amount + bonus_coins, otherwise it fails
\* and inserts nothing; a balance then moves only by processTopup on a
\* pending topup, by that transaction's amount.
PurchaseValid ==
    /\ last.s \in PaymentMethod
    /\ last.id \in DOMAIN prev.coin_packages
    /\ prev.coin_packages[last.id].is_active
    /\ last.who \in UserIds

RECURSIVE AmountOf(_)
AmountOf(S) ==
    IF S = {} THEN 0
    ELSE LET i == CHOOSE j \in S : TRUE
         IN transactions[i].amount + AmountOf(S \ {i})

CompletedOf(type) ==
    {i \in DOMAIN transactions :
        transactions[i].type = type /\ transactions[i].status = "completed"}

\* C23: getTransactionStats returns totalTopups = the sum of the amounts of
\* the completed topups, totalWithdrawals = the sum of the amounts of the
\* completed withdrawals, totalVolume = their sum and pendingTransactions =
\* the number of pending transactions of any type.
C23_StatsOfCompleted ==
    last.op = "getTransactionStats"
    => /\ reply.totalTopups = AmountOf(CompletedOf("topup"))
       /\ reply.totalWithdrawals = AmountOf(CompletedOf("withdrawal"))
       /\ reply.totalVolume = reply.totalTopups + reply.totalWithdrawals
       /\ reply.pendingTransactions
              = Cardinality({i \in DOMAIN transactions : transactions[i].status = "pending"})
       /\ transactions = prev.transactions

C23_Witness ==
    /\ last.op = "getTransactionStats"
    /\ Len(transactions) = MaxStatRows
    /\ reply.totalTopups = MaxAmount
    /\ reply.totalWithdrawals = MaxAmount
    /\ reply.pendingTransactions = 1
    /\ transactions[3].type = "topup"

\* The text s is a decimal numeral from its first to its last character,
\* with or without a fraction.
IsDecimal(s) ==
    LET n == DigitsLen(s, 1)
    IN /\ n > 0
       /\ \/ n = Len(s)
          \/ (/\ n < Len(s)
              /\ s[n + 1] = "."
              /\ DigitsLen(s, n + 2) > 0
              /\ n + 1 + DigitsLen(s, n + 2) = Len(s))

IsInteger(s) == DigitsLen(s, 1) = Len(s) /\ Len(s) > 0

LimitKeys ==
    {"min_coins_per_interaction", "max_coins_per_interaction", "min_withdrawal_amount"}

LimitReply(key) ==
    CASE key = "min_coins_per_interaction" -> reply.minCoinsPerInteraction
      [] key = "max_coins_per_interaction" -> reply.maxCoinsPerInteraction
      [] key = "min_withdrawal_amount" -> reply.minWithdrawalAmount

LimitDefault(key) ==
    CASE key = "min_coins_per_interaction" -> 1
      [] key = "max_coins_per_interaction" -> 100
      [] key = "min_withdrawal_amount" -> 100

\* the four documented defaults, as texts
DocumentedDefault(key) ==
    CASE key = "commission_rate" -> <<"0", ".", "0", "5">>
      [] key = "min_coins_per_interaction" -> <<"1">>
      [] key = "max_coins_per_interaction" -> <<"1", "0", "0">>
      [] key = "min_withdrawal_amount" -> <<"1", "0", "0">>

\* What a reader of the keys K leaves in the table: a row with the
\* documented default for each key of K that had none, every other row as
\* it was.
CreatedMissing(K) ==
    \A k \in SettingKeys :
        system_settings[k] =
            IF k \in K /\ prev.system_settings[k] = <<>>
            THEN <<DocumentedDefault(k)>>
            ELSE prev.system_settings[k]

\* C24 as stated: getCommissionRate and getCoinLimits create each missing
\* setting with its documented default and return that default; for a
\* setting that exists they return the stored value and leave the row.
C24_ReadCreatesDefault ==
    /\ last.op = "getCommissionRate"
       => /\ CreatedMissing({"commission_rate"})
          /\ last.ok
          /\ IF prev.system_settings["commission_rate"] = <<>>
             THEN reply = 50
             ELSE /\ IsDecimal(prev.system_settings["commission_rate"][1])
                  /\ reply = parseFloat(prev.system_settings["commission_rate"][1])
    /\ last.op = "getCoinLimits"
       => /\ CreatedMissing(LimitKeys)
          /\ last.ok
          /\ \A k \in LimitKeys :
                IF prev.system_settings[k] = <<>>
                THEN LimitReply(k) = LimitDefault(k)
                ELSE /\ IsInteger(prev.system_settings[k][1])
                     /\ LimitReply(k) = parseInt(prev.system_settings[k][1])

\* C24 amended: the missing settings are created with their defaults and
\* no existing row is modified, whatever the call returns. The call
\* returns when every existing value it reads starts with a number, giving
\* the default for a created setting and that leading number for an
\* existing one; otherwise it throws.
C24_ReadCreatesDefaultOrParses ==
    /\ last.op = "getCommissionRate"
       => /\ CreatedMissing({"commission_rate"})
          /\ LET rows == prev.system_settings["commission_rate"] IN
             IF rows = <<>> THEN last.ok /\ reply = 50
             ELSE IF parseFloat(rows[1]) = NaN THEN ~last.ok
             ELSE last.ok /\ reply = parseFloat(rows[1])
    /\ last.op = "getCoinLimits"
       => /\ CreatedMissing(LimitKeys)
          /\ IF \E k \in LimitKeys :
                   /\ prev.system_settings[k] # <<>>
                   /\ parseInt(prev.system_settings[k][1]) = NaN
             THEN ~last.ok
             ELSE /\ last.ok
                  /\ \A k \in LimitKeys :
                        LimitReply(k) =
                            IF prev.system_settings[k] = <<>> THEN LimitDefault(k)
                            ELSE parseInt(prev.system_settings[k][1])

C24_Witness ==
    /\ last.op = "getCoinLimits"
    /\ last.ok
    /\ prev.system_settings["min_coins_per_interaction"] = <<>>
    /\ prev.system_settings["max_coins_per_interaction"] = << <<"1", ".", "5">> >>
    /\ system_settings["min_coins_per_interaction"] = << <<"1">> >>
    /\ reply.maxCoinsPerInteraction = 1
    /\ reply.minWithdrawalAmount = 100

\* A price with at most two decimal places, and its cents.
TwoDecimals(milli) == milli % 10 = 0
CentsOf(milli) == milli \div 10

\* What the reading handlers return for the rows of the table.
ReadsGiveCents ==
    /\ (last.op = "getCoinPackageById" /\ last.id \in DOMAIN coin_packages)
       => reply.price = coin_packages[last.id].price * 10
    /\ last.op = "getCoinPackages"
       => /\ DOMAIN reply = {i \in DOMAIN coin_packages : coin_packages[i].is_active}
          /\ \A i \in DOMAIN reply : reply[i].price = coin_packages[i].price * 10

\* C25 as stated: for every price with at most two decimal places
\* createCoinPackage stores price * 100 as integer cents and returns the
\* price, and getCoinPackageById and getCoinPackages return cents / 100.
C25_PriceRoundTrip ==
    /\ (last.op = "createCoinPackage" /\ TwoDecimals(last.x))
       => /\ last.ok
          /\ coin_packages[last.id].price = CentsOf(last.x)
          /\ reply.price = last.x
    /\ ReadsGiveCents

\* C25 amended: the same for the prices whose cents fit the integer
\* column; for a larger price createCoinPackage fails and stores nothing.
C25_PriceRoundTripInRange ==
    /\ (last.op = "createCoinPackage" /\ TwoDecimals(last.x))
       => IF InRange(CentsOf(last.x))
          THEN /\ last.ok
               /\ coin_packages[last.id].price = CentsOf(last.x)
               /\ reply.price = last.x
          ELSE /\ ~last.ok
               /\ coin_packages = prev.coin_packages
    /\ ReadsGiveCents

C25_Witness ==
    /\ last.op = "getCoinPackageById"
    /\ last.id \in DOMAIN coin_packages
    /\ coin_packages[last.id].price = 6
    /\ reply.price = 60

\* C26: over any sequence of createTransaction, updateTransaction,
\* processTopup and processWithdrawal calls, a transaction moves the balance
\* of its user at most once: a processing call on a transaction that has
\* already written a balance leaves every balance as it was.
C26_MovesBalanceAtMostOnce ==
    (last.op \in {"processTopup", "processWithdrawal"} /\ last.id \in prev.moved)
    => users = prev.users


\* The balance a user starts with.
StartBalance(u) == IF u = 1 THEN StartCoins ELSE 0

\* C27: when processTopup calls on one pending top-up interleave, at most one
\* of them succeeds (the credits of the calls that reported success add up to
\* at most the amount), and once the top-up is completed the user's balance
\* is the initial balance plus the amount, exactly once. Stated of the states
\* where no call is in flight and no task was created.
C27_ConcurrentTopupOnce ==
    (/\ \A p \in ProcIds : procs[p].pc = "idle"
     /\ tasks = <<>>
     /\ Len(transactions) = 1
     /\ transactions[1].type = "topup")
    => LET txn == transactions[1]
           u == txn.user_id
       IN
       /\ expected[u] \in {StartBalance(u), StartBalance(u) + txn.amount}
       /\ txn.status = "completed"
          => users[u].coin_balance = StartBalance(u) + txn.amount


\* The rows of task_works that belong to task t.
WorksOf(t) == {i \in DOMAIN task_works : task_works[i].task_id = t}

RECURSIVE CoinsOf(_, _)
\* The sum of coins_earned over the first n rows of task_works that belong
\* to task t.
CoinsOf(t, n) ==
    IF n = 0 THEN 0
    ELSE CoinsOf(t, n - 1)
         + (IF task_works[n].task_id = t THEN task_works[n].coins_earned ELSE 0)

\* C28: for every task, the works that are not rejected number at most
\* target_interactions, and the coins_earned of its works add up to at most
\* total_coins_allocated.
C28_WorksWithinTarget ==
    \A t \in DOMAIN tasks :
        /\ Cardinality({i \in WorksOf(t) : ~Rejected(task_works[i])})
               <= tasks[t].target_interactions
        /\ CoinsOf(t, Len(task_works)) <= tasks[t].total_coins_allocated


\* C29: whatever the interleaving of createTaskWork calls for one (task,
\* worker) pair, the pair has at most one row; a call that succeeds returns
\* the row of its pair, so at most one call of a pair succeeds, and a call
\* the store refused leaves the row of the call that won.
C29_OneRowUnderRace ==
    /\ \A i, j \in DOMAIN task_works :
           (/\ task_works[i].task_id = task_works[j].task_id
            /\ task_works[i].worker_id = task_works[j].worker_id) => i = j
    /\ (last.op = "createTaskWork" /\ last.ok)
       => /\ last.x \in DOMAIN task_works
          /\ task_works[last.x].task_id = last.id
          /\ task_works[last.x].worker_id = last.who
    /\ (last.op = "createTaskWork"
        /\ last.err = "duplicate key value violates unique constraint")
       => HasWork(last.id, last.who)

\* Two calls for one pair both passed the duplicate check; the store refused
\* the second INSERT and one row exists.
C29_Witness ==
    /\ last.op = "createTaskWork"
    /\ last.err = "duplicate key value violates unique constraint"
    /\ Len(task_works) = 1
    /\ task_works[1].task_id = last.id
    /\ task_works[1].worker_id = last.who
    /\ \A p \in ProcIds : procs[p].pc = "idle"


\* C30: processTopup and processWithdrawal called on a transaction that does
\* not exist, is of the other type, or is not pending raise the error of
\* that case and change no transaction row and no coin_balance.
C30_RefusedProcessingChangesNothing ==
    \A op \in {"processTopup", "processWithdrawal"} :
        LET type == IF op = "processTopup" THEN "topup" ELSE "withdrawal"
            missing == last.id \notin DOMAIN prev.transactions
            other == ~missing /\ prev.transactions[last.id].type # type
            processed == ~missing /\ ~other /\ prev.transactions[last.id].status # "pending"
        IN
        (last.op = op /\ (missing \/ other \/ processed))
        => /\ ~last.ok
           /\ last.err = IF missing THEN "Transaction not found"
                         ELSE IF other THEN "Transaction is not a " \o type
                         ELSE "Transaction is not pending"
           /\ transactions = prev.transactions
           /\ users = prev.users

\* processTopup was called on a pending withdrawal the user could afford.
C30_Witness ==
    /\ last.op = "processTopup"
    /\ ~last.ok
    /\ last.id \in DOMAIN prev.transactions
    /\ prev.transactions[last.id].type = "withdrawal"
    /\ prev.transactions[last.id].status = "pending"
    /\ prev.transactions[last.id].amount = MaxAmount
    /\ transactions = prev.transactions
    /\ users = prev.users


\* C31: getPendingTaskWorks returns exactly the works that still await a
\* decision: every pending work, no verified work and no rejected work.
C31_PendingListIsPending ==
    last.op = "getPendingTaskWorks"
    => DOMAIN reply = {i \in DOMAIN task_works : Pending(task_works[i])}


\* C32: in every state a pending transaction has processed_at = null, and a
\* successful updateTransaction stamps processed_at exactly when the status
\* it sets is completed or failed.
C32_PendingHasNoStamp ==
    /\ \A i \in DOMAIN transactions :
           transactions[i].status = "pending" => transactions[i].processed_at = NULL
    /\ (last.op = "updateTransaction" /\ last.ok)
       => IF last.s \in {"completed", "failed"}
          THEN transactions[last.id].processed_at = STAMP
          ELSE transactions[last.id].processed_at = prev.transactions[last.id].processed_at


\* The administrator routes that decide on works and transactions, and the
\* handlers behind them.
AdminRoutes ==
    {"taskWorks.verify", "taskWorks.reject", "taskWorks.autoVerify",
     "transactions.update", "transactions.processTopup", "transactions.processWithdrawal"}

AdminHandlers ==
    {"verifyTaskWork", "rejectTaskWork", "autoVerifyTaskWork",
     "updateTransaction", "processTopup", "processWithdrawal"}

\* C33: the handler of an administrator route runs only for a caller whose
\* role is admin; an anonymous caller is refused with UNAUTHORIZED and a
\* user who is not an admin with FORBIDDEN, and a refused call changes no
\* table.
C33_AdminRoutesGuarded ==
    /\ last.op \in AdminHandlers => caller.role = "admin"
    /\ (last.op \in AdminRoutes \/ last.op \in AdminHandlers)
       => IF caller.role = "admin" THEN last.op \in AdminHandlers
          ELSE /\ last.op \in AdminRoutes
               /\ ~last.ok
               /\ last.err = IF caller = Anonymous THEN "UNAUTHORIZED" ELSE "FORBIDDEN"
               /\ users = prev.users
               /\ tasks = prev.tasks
               /\ task_works = prev.task_works
               /\ transactions = prev.transactions

\* A user who is not an admin asked to process a pending top-up for
\* themself and was refused.
C33_Witness ==
    /\ last.op = "transactions.processTopup"
    /\ last.err = "FORBIDDEN"
    /\ caller.role = "user"
    /\ last.id \in DOMAIN transactions
    /\ transactions[last.id].type = "topup"
    /\ transactions[last.id].status = "pending"
    /\ transactions[last.id].user_id = caller.id
    /\ users = prev.users


\* The routes that return transactions rows.
ReadRoutes ==
    {"transactions.getMyTransactions", "transactions.getById", "transactions.getAll"}

\* C34: the rows a transactions route returns to a caller who is not an
\* admin are transactions of the caller: their user_id is the caller's id.
C34_ReadsOwnTransactionsOnly ==
    (last.op \in ReadRoutes /\ last.ok /\ last.s # "admin")
    => \A i \in DOMAIN reply : reply[i].user_id = last.who


\* C35 as stated: while the status of a user is not active, every login with
\* the user's email and password and every verifyToken with a token issued
\* to the user fails with 'Account is suspended or blocked'.
C35_InactiveIsLockedOut ==
    /\ (/\ last.op = "login"
        /\ last.s = "password"
        /\ last.who \in DOMAIN prev.users
        /\ prev.users[last.who].status # "active")
       => (~last.ok /\ last.err = "Account is suspended or blocked")
    /\ (/\ last.op = "verifyToken"
        /\ last.s = "signed"
        /\ prev.users[last.who].status # "active")
       => (~last.ok /\ last.err = "Account is suspended or blocked")

\* C35 as the code has it: the login fails with that error; verifyToken
\* fails too, with that error while the token has not expired and with
\* 'Token has expired' once it has, the expiry being checked first.
C35_InactiveIsLockedOutOrExpired ==
    /\ (/\ last.op = "login"
        /\ last.s = "password"
        /\ last.who \in DOMAIN prev.users
        /\ prev.users[last.who].status # "active")
       => (~last.ok /\ last.err = "Account is suspended or blocked")
    /\ (/\ last.op = "verifyToken"
        /\ last.s = "signed"
        /\ prev.users[last.who].status # "active")
       => /\ ~last.ok
          /\ last.err = IF last.x < last.y THEN "Token has expired"
                        ELSE "Account is suspended or blocked"

\* A token issued before the user was blocked is refused while it is still
\* within its life.
C35_Witness ==
    /\ last.op = "verifyToken"
    /\ last.s = "signed"
    /\ users[last.who].status = "blocked"
    /\ last.x >= last.y
    /\ last.err = "Account is suspended or blocked"


C37_LazyInitWithoutError ==
    (last.op \in {"getCommissionRate", "updateSystemSetting"} /\ last.n = "insert")
    => /\ last.ok
       /\ Len(system_settings[last.s]) = 1

====
